---- MODULE Spec2Model ----
(***************************************************************************)
(* A model of the settlement engine Gradostroi (src/adgs.py) and of the    *)
(* console driver game_loop/main that runs it.                             *)
(*                                                                         *)
(* Numbers.  The engine computes with Python floats.  Every real quantity  *)
(* (stocks, research progress, happiness, multipliers, biome health,       *)
(* prices) is held here as an integer count of thousandths; a product of   *)
(* two such quantities is rounded down to a thousandth (Mul).  Counters    *)
(* (day, population, workers, buildings, storage_count) are integers as in *)
(* the code.                                                               *)
(***************************************************************************)
EXTENDS Integers, Sequences, FiniteSets, TLC

VARIABLES
  g,          \* the Gradostroi instance of the running process
  disk,       \* the save file of SaveManager: NoSave or a serialized map
  pc,         \* where the driver is: game_loop's position, or the process end
  first_turn, \* game_loop's local first_turn
  last,       \* what the last engine operation was called with and returned
  report,     \* what the process printed about the victory
  runs,       \* how many times the program has been started
  loads,      \* how many times the 'r' command has loaded the save
  presses     \* how many key events the window has handled

vars == <<g, disk, pc, first_turn, last, report, runs, loads, presses>>

----------------------------------------------------------------------------
(* Arithmetic on thousandths *)

K == 10 * 100

Mul(a, b) == (a * b) \div K

Min(a, b) == IF a <= b THEN a ELSE b

Max(a, b) == IF a >= b THEN a ELSE b

RECURSIVE SumOver(_, _)
SumOver(f, S) ==
  IF S = {} THEN 0
  ELSE LET x == CHOOSE y \in S : TRUE IN f[x] + SumOver(f, S \ {x})

SumAll(f) == SumOver(f, DOMAIN f)

Contains(s, x) == \E i \in 1..Len(s) : s[i] = x

RECURSIVE Remove(_, _)
Remove(s, x) ==
  IF s = <<>> THEN <<>>
  ELSE IF Head(s) = x THEN Tail(s)
  ELSE <<Head(s)>> \o Remove(Tail(s), x)

----------------------------------------------------------------------------
(* Identifiers *)

Res == {"wood", "wine", "rock", "food", "water", "sand", "clay", "iron",
        "cooper", "tin", "nickel", "plumb", "salt", "sulfur", "coal", "steel",
        "bronze", "sulfur_acid", "clorine", "builder_materials", "instrument",
        "ancient_tool", "herbs"}

BuildingTypes == {"les", "sob", "kam", "pol", "pes", "gli"}

Biomes == {"forest", "rivers", "soil", "air"}

Difficulties == {"easy", "normal", "hard"}

TechIds == {"basic_agriculture", "advanced_mining", "ecology", "industrial_revolution"}

\* the insertion order of self.technologies, which _technology_menu walks
TechOrder == <<"basic_agriculture", "advanced_mining", "ecology", "industrial_revolution">>

SecretIds == {"seed_of_prosperity", "memory_crystal", "forge_of_souls"}

AchievementIds == {"first_settlement", "master_crafter", "ecological_balance", "tech_pioneer"}

CharNames == {"elder", "miner", "keeper"}

\* the order of self.characters
CharOrder == <<"elder", "miner", "keeper">>

NoSave == [none |-> TRUE]

\* a save file json.load cannot parse
Unparseable == [garbage |-> TRUE]

\* an empty dict
EmptyMap == [x \in {} |-> 0]

\* a cost or effect table: a function from a few resource names to amounts
Cost1(a, x) == a :> x

Cost2(a, x, b, y) == (a :> x) @@ (b :> y)

Cost3(a, x, b, y, c, z) == (a :> x) @@ (b :> y) @@ (c :> z)

----------------------------------------------------------------------------
(* Program constants *)

STORAGE_BASE_CAPACITY == 50

STORAGE_PER_BUILDING == 75

base_population == 8

\* pop_food_per_day = 0.4, in thousandths
pop_food_per_day == 400

\* happiness_decay = 0.25, in thousandths
happiness_decay == 250

autosave_every == 5

MULTIPLIERS == <<1, 10, 100>>

----------------------------------------------------------------------------
(* Construction: Gradostroi.__init__ *)

InitialResources ==
  [r \in Res |->
     CASE r = "wood" -> 10 * K
       [] r = "wine" -> 10 * K
       [] r = "rock" -> 10 * K
       [] r = "food" -> 12 * K
       [] OTHER -> 0]

InitialMiningActions ==
  [c \in {"1", "2", "3", "4", "5", "6"} |->
     CASE c = "1" -> Cost2("wood", 5 * K, "wine", 1 * K)
       [] c = "2" -> Cost2("wood", 1 * K, "wine", 3 * K)
       [] c = "3" -> Cost1("rock", 3 * K)
       [] c = "4" -> Cost2("food", 3 * K, "water", 3 * K)
       [] c = "5" -> Cost1("sand", 3 * K)
       [] c = "6" -> Cost1("clay", 3 * K)]

building_production ==
  [b \in BuildingTypes |->
     CASE b = "les" -> Cost1("wood", 2 * K)
       [] b = "sob" -> Cost2("wine", 1 * K, "herbs", 500)
       [] b = "kam" -> Cost1("rock", 2 * K)
       [] b = "pol" -> Cost1("food", 3 * K)
       [] b = "pes" -> Cost1("sand", 2 * K)
       [] b = "gli" -> Cost1("clay", 2 * K)]

building_costs ==
  [b \in BuildingTypes \cup {"store"} |->
     CASE b = "les" -> Cost2("wood", 15 * K, "rock", 5 * K)
       [] b = "sob" -> Cost3("wood", 10 * K, "rock", 3 * K, "herbs", 2 * K)
       [] b = "kam" -> Cost2("wood", 8 * K, "rock", 10 * K)
       [] b = "pol" -> Cost2("wood", 5 * K, "water", 10 * K)
       [] b = "pes" -> Cost2("wood", 12 * K, "rock", 8 * K)
       [] b = "gli" -> Cost2("wood", 10 * K, "rock", 6 * K)
       [] b = "store" -> Cost2("wood", 20 * K, "rock", 15 * K)]

\* Technology.cost without its "research" entry, and the "research" entry
tech_cost ==
  [t \in TechIds |->
     CASE t = "basic_agriculture" -> EmptyMap
       [] t = "advanced_mining" -> Cost1("instrument", 5 * K)
       [] t = "ecology" -> EmptyMap
       [] t = "industrial_revolution" -> Cost2("steel", 20 * K, "coal", 30 * K)]

tech_research ==
  [t \in TechIds |->
     CASE t = "basic_agriculture" -> 20 * K
       [] t = "advanced_mining" -> 40 * K
       [] t = "ecology" -> 60 * K
       [] t = "industrial_revolution" -> 100 * K]

required_techs ==
  [t \in TechIds |->
     CASE t = "basic_agriculture" -> {}
       [] t = "advanced_mining" -> {"basic_agriculture"}
       [] t = "ecology" -> {"basic_agriculture"}
       [] t = "industrial_revolution" -> {"advanced_mining"}]

\* a secret's cost without its "research" entry, and the "research" entry
\* (0 where the cost names no research: the check is then no condition)
secret_cost ==
  [s \in SecretIds |->
     CASE s = "seed_of_prosperity" -> Cost1("food", 50 * K)
       [] s = "memory_crystal" -> Cost2("rock", 30 * K, "water", 20 * K)
       [] s = "forge_of_souls" -> Cost2("steel", 10 * K, "coal", 20 * K)]

secret_research ==
  [s \in SecretIds |->
     CASE s = "seed_of_prosperity" -> 10 * K
       [] s = "memory_crystal" -> 0
       [] s = "forge_of_souls" -> 30 * K]

InitialCharacters ==
  [c \in CharNames |->
     CASE c = "elder" ->
            [rel |-> 50, quests |-> <<"sacred_grove", "biodiversity">>, memory |-> <<>>]
       [] c = "miner" ->
            [rel |-> 30, quests |-> <<"rare_ores", "better_tools">>, memory |-> <<>>]
       [] c = "keeper" ->
            [rel |-> 40, quests |-> <<"ancient_ruins", "lost_knowledge">>, memory |-> <<>>]]

personality_traits ==
  [c \in CharNames |->
     CASE c = "elder" -> {"environmentalist", "wise", "patient"}
       [] c = "miner" -> {"pragmatic", "blacksmith", "progressive"}
       [] c = "keeper" -> {"scholar", "curious", "traditionalist"}]

\* GameConfig.apply_difficulty: raw writes to the stocks, no cap and no floor
apply_difficulty(e, d) ==
  CASE d = "easy" ->
         [e EXCEPT !.resources["food"] = @ + 25 * K,
                   !.resources["wood"] = @ + 20 * K,
                   !.resources["wine"] = @ + 15 * K,
                   !.eco_industry_penalty = 800,
                   !.happiness = @ + 10 * K]
    [] d = "hard" ->
         [e EXCEPT !.resources["food"] = @ - 5 * K,
                   !.eco_industry_penalty = 1200,
                   !.happiness = @ - 5 * K]
    [] OTHER -> e

\* the engine after _init_game_state .. _init_population, before apply_difficulty
BlankEngine(d, allah, globu, dur) ==
  [ difficulty |-> d,
    day |-> 0,
    multiplier_mode |-> 0,
    research_progress |-> 0,
    research_complete |-> FALSE,
    victory_achieved |-> FALSE,
    craft_speed_multiplier |-> K,
    research_bonus |-> K,
    food_production_multiplier |-> K,
    happiness |-> 50 * K,
    eco_industry_penalty |-> K,
    mining_actions |-> InitialMiningActions,
    storage_count |-> 1,
    resources |-> InitialResources,
    buildings |-> [b \in BuildingTypes |-> 0],
    allah_event |-> allah,
    globu_event |-> globu,
    event_duration |-> dur,
    biome_health |-> [b \in Biomes |->
                        CASE b = "forest" -> 5 * K
                          [] b = "rivers" -> 0
                          [] b = "soil" -> 8 * K
                          [] b = "air" -> 2 * K],
    pollution_level |-> 0,
    biodiversity |-> 100 * K,
    price_history |-> [r \in Res |-> <<>>],
    trend |-> K,
    unlocked |-> {},
    discovered |-> {},
    discovered_lore |-> <<>>,
    researched |-> {},
    researched_techs |-> <<>>,
    characters |-> InitialCharacters,
    population |-> base_population,
    idle_workers |-> base_population,
    workers |-> EmptyMap ]

NewEngine(d, allah, globu, dur) == apply_difficulty(BlankEngine(d, allah, globu, dur), d)

----------------------------------------------------------------------------
(* Helpers and properties of Gradostroi *)

\* a read of a defaultdict: the value, or the default 0 of a missing key
Get(f, k) == IF k \in DOMAIN f THEN f[k] ELSE 0

\* what a read d[k] leaves behind in a defaultdict: the key, created at 0
Touch(f, k) == IF k \in DOMAIN f THEN f ELSE f @@ (k :> 0)

current_multiplier(e) == MULTIPLIERS[e.multiplier_mode + 1]

\* in whole units, as the code; StorageCap is the same in thousandths
storage_capacity(e) == STORAGE_BASE_CAPACITY + STORAGE_PER_BUILDING * e.storage_count

StorageCap(e) == storage_capacity(e) * K

workers_total(e) == SumAll(e.workers)

happiness_mod(e) == Max(800, Min(1200, K + ((e.happiness - 50 * K) * 5) \div K))

InWindow(d, start, len) == start <= d /\ d <= start + len

get_hostility_modifier(e) ==
  IF InWindow(e.day, e.allah_event, e.event_duration) THEN 2 * K
  ELSE IF InWindow(e.day, e.globu_event, e.event_duration * 2) THEN 100
  ELSE IF InWindow(e.day, e.globu_event * 2, e.event_duration * 3) THEN 10
  ELSE IF InWindow(e.day, e.globu_event * 5, e.event_duration * 5) THEN 1
  ELSE K

\* an adjust_resource that forgets the storage
adjust_resource_uncapped(e, key, delta) ==
  [e EXCEPT !.resources[key] = @ + delta]

adjust_resource(e, key, delta) ==
  IF delta > 0 /\ key # "wine"
  THEN [e EXCEPT !.resources[key] = Min(@ + delta, StorageCap(e))]
  ELSE [e EXCEPT !.resources[key] = @ + delta]

\* for r, amt in table.items(): adjust_resource(r, sign * amt), in any order:
\* the entries name different resources, so the order does not matter
RECURSIVE AdjustEach(_, _, _, _)
AdjustEach(e, table, keys, sign) ==
  IF keys = {} THEN e
  ELSE LET r == CHOOSE x \in keys : TRUE
       IN AdjustEach(adjust_resource(e, r, sign * table[r]), table, keys \ {r}, sign)

AdjustAll(e, table, sign) == AdjustEach(e, table, DOMAIN table, sign)

\* all(self.resources[r] >= amt for r, amt in table.items())
Affordable(e, table) == \A r \in DOMAIN table : e.resources[r] >= table[r]

----------------------------------------------------------------------------
(* WorldEcosystem *)

building_impact ==
  [b \in {"les", "kam", "pes", "gli"} |->
     CASE b = "les" -> Cost2("forest", -600, "air", -150)
       [] b = "kam" -> Cost2("soil", -400, "air", -250)
       [] b = "pes" -> Cost2("soil", -550, "rivers", -350)
       [] b = "gli" -> Cost1("soil", -350)]

get_overall_health(e) == SumAll(e.biome_health) \div 4

get_health_status(e) ==
  LET h == get_overall_health(e)
  IN IF h >= 80 * K THEN "HEALTHY"
     ELSE IF h >= 60 * K THEN "STABLE"
     ELSE IF h >= 40 * K THEN "DEGRADED"
     ELSE "CRITICAL"

\* a get_production_modifier whose tiers begin above 80, 60 and 40
get_production_modifier_strict(e) ==
  LET h == get_overall_health(e)
  IN IF h > 80 * K THEN 1200
     ELSE IF h > 60 * K THEN K
     ELSE IF h > 40 * K THEN 800
     ELSE 600

get_production_modifier(e) ==
  LET h == get_overall_health(e)
  IN IF h >= 80 * K THEN 1200
     ELSE IF h >= 60 * K THEN K
     ELSE IF h >= 40 * K THEN 800
     ELSE 600

\* worker_factor of update_ecosystem, the eco-industry penalty multiplied in
worker_factor(e) == Mul(750 + 50 * Min(workers_total(e), 10), e.eco_industry_penalty)

\* the sum of impact * count * worker_factor over the buildings that touch a biome
BiomeImpact(e, biome) ==
  LET wf == worker_factor(e)
      term == [b \in DOMAIN building_impact |->
                 IF biome \in DOMAIN building_impact[b]
                 THEN Mul(building_impact[b][biome] * Get(e.buildings, b), wf)
                 ELSE 0]
  IN SumAll(term)

\* an update_ecosystem that leaves out the clamp to [0, 100]
update_ecosystem_unclamped(e) ==
  [e EXCEPT !.biome_health =
     [b \in Biomes |->
        LET hit == e.biome_health[b] + BiomeImpact(e, b)
        IN IF hit < 90 * K THEN hit + 600 ELSE hit]]

\* an update_ecosystem whose regeneration stops at 80 instead of 90
update_ecosystem_thin(e) ==
  LET hit == [b \in Biomes |-> e.biome_health[b] + BiomeImpact(e, b)]
      regen == [b \in Biomes |-> IF hit[b] < 80 * K THEN hit[b] + 600 ELSE hit[b]]
      health == [b \in Biomes |-> Max(0, Min(100 * K, regen[b]))]
      total_industry == SumAll(e.buildings)
      pollution == Min(100 * K, Mul(250 * total_industry, worker_factor(e)))
      avg_health == SumAll(health) \div 4
  IN [e EXCEPT !.biome_health = health,
               !.pollution_level = pollution,
               !.biodiversity = Max(0, avg_health - Mul(pollution, 250))]

update_ecosystem(e) ==
  LET hit == [b \in Biomes |-> e.biome_health[b] + BiomeImpact(e, b)]
      regen == [b \in Biomes |-> IF hit[b] < 90 * K THEN hit[b] + 600 ELSE hit[b]]
      health == [b \in Biomes |-> Max(0, Min(100 * K, regen[b]))]
      total_industry == SumAll(e.buildings)
      pollution == Min(100 * K, Mul(250 * total_industry, worker_factor(e)))
      avg_health == SumAll(health) \div 4
  IN [e EXCEPT !.biome_health = health,
               !.pollution_level = pollution,
               !.biodiversity = Max(0, avg_health - Mul(pollution, 250))]

----------------------------------------------------------------------------
(* LegacySystem *)

\* an unlock_achievement whose craft_speed reward multiplies instead of
\* raising a floor
unlock_achievement_stacked(e, key) ==
  LET a == [e EXCEPT !.unlocked = @ \cup {key}]
  IN CASE key = "first_settlement" ->
            [a EXCEPT !.resources["builder_materials"] = @ + 10 * K]
       [] key = "master_crafter" ->
            [a EXCEPT !.craft_speed_multiplier = Mul(@, 1200)]
       [] key = "tech_pioneer" ->
            [a EXCEPT !.research_bonus = Max(@, 1500)]
       \* "biome_health" is no resource and no multiplier: the loop skips it
       [] OTHER -> a

unlock_achievement(e, key) ==
  LET a == [e EXCEPT !.unlocked = @ \cup {key}]
  IN CASE key = "first_settlement" ->
            [a EXCEPT !.resources["builder_materials"] = @ + 10 * K]
       [] key = "master_crafter" ->
            [a EXCEPT !.craft_speed_multiplier = Max(@, 1200)]
       [] key = "tech_pioneer" ->
            [a EXCEPT !.research_bonus = Max(@, 1500)]
       \* "biome_health" is no resource and no multiplier: the loop skips it
       [] OTHER -> a

\* a check_achievements that does not look at the unlocked flag of the
\* first settlement
check_achievements_again(e) ==
  LET e1 == IF SumAll(e.buildings) >= 3
            THEN unlock_achievement(e, "first_settlement") ELSE e
      e2 == IF "master_crafter" \notin e1.unlocked /\ e1.resources["instrument"] >= 20 * K
            THEN unlock_achievement(e1, "master_crafter") ELSE e1
      eco == get_overall_health(e2)
      e3 == IF "ecological_balance" \notin e2.unlocked /\ eco >= 80 * K
            THEN unlock_achievement(e2, "ecological_balance") ELSE e2
  IN IF "tech_pioneer" \notin e3.unlocked /\ e3.research_progress >= 50 * K
     THEN unlock_achievement(e3, "tech_pioneer") ELSE e3

check_achievements(e) ==
  LET e1 == IF "first_settlement" \notin e.unlocked /\ SumAll(e.buildings) >= 3
            THEN unlock_achievement(e, "first_settlement") ELSE e
      e2 == IF "master_crafter" \notin e1.unlocked /\ e1.resources["instrument"] >= 20 * K
            THEN unlock_achievement(e1, "master_crafter") ELSE e1
      eco == get_overall_health(e2)
      e3 == IF "ecological_balance" \notin e2.unlocked /\ eco >= 80 * K
            THEN unlock_achievement(e2, "ecological_balance") ELSE e2
  IN IF "tech_pioneer" \notin e3.unlocked /\ e3.research_progress >= 50 * K
     THEN unlock_achievement(e3, "tech_pioneer") ELSE e3

\* the four scores, the cross bonus, and the best category; on a tie max()
\* keeps the first in the order of the dict
VictoryOrder == <<"TECHNOLOGICAL", "ECONOMIC", "ECOLOGICAL", "CULTURAL">>

legacy_scores(e) ==
  LET nonwine == SumOver(e.resources, Res \ {"wine"})
      econ == Mul(nonwine, 100) + Mul(e.resources["wine"], 50)
      ecol == get_overall_health(e)
      cult == Cardinality(e.unlocked) * 25 * K
      boost == ecol > 70 * K
  IN [v \in {"TECHNOLOGICAL", "ECONOMIC", "ECOLOGICAL", "CULTURAL"} |->
        CASE v = "TECHNOLOGICAL" -> e.research_progress
          [] v = "ECONOMIC" -> IF boost THEN Mul(econ, 1200) ELSE econ
          [] v = "ECOLOGICAL" -> ecol
          [] v = "CULTURAL" -> IF boost THEN Mul(cult, 1100) ELSE cult]

calculate_final_legacy(e) ==
  LET sc == legacy_scores(e)
      best == CHOOSE i \in 1..4 :
                /\ \A j \in 1..4 : sc[VictoryOrder[i]] >= sc[VictoryOrder[j]]
                /\ \A j \in 1..(i - 1) : sc[VictoryOrder[j]] < sc[VictoryOrder[i]]
  IN VictoryOrder[best]

----------------------------------------------------------------------------
(* Random events *)

EventKinds == {"none", "rain", "storm", "caravan", "fire", "deposit"}

event_effect ==
  [k \in EventKinds \ {"none"} |->
     CASE k = "rain" -> Cost1("food", 8 * K)
       [] k = "storm" -> Cost2("wood", -5 * K, "rock", -4 * K)
       [] k = "caravan" -> Cost1("wine", 14 * K)
       [] k = "fire" -> Cost2("wood", -10 * K, "food", -4 * K)
       [] k = "deposit" -> Cost2("iron", 6 * K, "coal", 4 * K)]

\* ev is what random.random() and random.choice() came to: "none" when the
\* roll was 0.12 or more
process_random_events(e, ev) ==
  IF ev = "none" THEN e
  ELSE LET a == AdjustAll(e, event_effect[ev], 1)
       IN IF ev = "fire"
          THEN [a EXCEPT !.biome_health["forest"] = Max(0, @ - 5 * K)]
          ELSE a

----------------------------------------------------------------------------
(* Characters *)

action_impact(action) ==
  CASE action = "deforestation" -> -25
    [] action = "build_sawmill" -> -10
    [] action = "build_herbalist" -> 15
    [] action = "research_ecology" -> 20
    [] action = "pollute_river" -> -30
    [] action = "cleanup_pollution" -> 25
    [] action = "build_forge" -> 10
    [] OTHER -> 0

\* Character.react_to_action on the character called name ('deforest' is a
\* substring of "deforestation" alone, 'build_forge' of "build_forge" alone)
react_to_action(e, name, action) ==
  LET c == e.characters[name]
      green == "environmentalist" \in personality_traits[name] /\ action = "deforestation"
      smith == "blacksmith" \in personality_traits[name] /\ action = "build_forge"
      i1 == IF green THEN action_impact(action) * 2 ELSE action_impact(action)
      i2 == IF smith THEN i1 + 20 ELSE i1
      m1 == IF green THEN Append(c.memory, "player_destroyed_nature") ELSE c.memory
      m2 == IF smith THEN Append(m1, "player_built_forge") ELSE m1
  IN [e EXCEPT !.characters[name] =
        [c EXCEPT !.rel = Max(-100, Min(100, c.rel + i2)), !.memory = m2]]

\* for c in self.characters: if trait in c.personality_traits: c.react_to_action(action)
RECURSIVE ReactEach(_, _, _, _)
ReactEach(e, names, trait, action) ==
  IF names = {} THEN e
  ELSE LET n == CHOOSE x \in names : TRUE
           e1 == IF trait \in personality_traits[n] THEN react_to_action(e, n, action) ELSE e
       IN ReactEach(e1, names \ {n}, trait, action)

----------------------------------------------------------------------------
(* Mining and passive production: process_mining *)

\* the passive production of one building type, added to the stocks
RECURSIVE ProduceEach(_, _, _, _, _)
ProduceEach(e, bld, keys, eco, worker_bonus) ==
  IF keys = {} THEN e
  ELSE LET res == CHOOSE x \in keys : TRUE
           p == Mul(Mul(building_production[bld][res] * e.buildings[bld], eco), worker_bonus)
           q == IF res = "food" THEN Mul(p, e.food_production_multiplier) ELSE p
       IN ProduceEach(adjust_resource(e, res, q), bld, keys \ {res}, eco, worker_bonus)

RECURSIVE PassiveProduction(_, _, _)
PassiveProduction(e, blds, eco) ==
  IF blds = {} THEN e
  ELSE LET bld == CHOOSE x \in blds : TRUE
       IN IF e.buildings[bld] <= 0
          THEN PassiveProduction(e, blds \ {bld}, eco)
          ELSE LET e1 == [e EXCEPT !.workers = Touch(@, bld)]
                   worker_bonus == K + 150 * Min(e1.workers[bld], 5)
                   e2 == ProduceEach(e1, bld, DOMAIN building_production[bld], eco, worker_bonus)
               IN PassiveProduction(e2, blds \ {bld}, eco)

RECURSIVE MineEach(_, _, _, _, _)
MineEach(e, action, keys, base, eco) ==
  IF keys = {} THEN e
  ELSE LET res == CHOOSE x \in keys : TRUE
           prod == Mul(Mul(action[res], base), eco)
       IN MineEach(adjust_resource(e, res, prod), action, keys \ {res}, base, eco)

process_mining(e, choice) ==
  IF choice \notin DOMAIN e.mining_actions THEN e
  ELSE LET action == e.mining_actions[choice]
           eco == get_production_modifier(e)
           base == Mul(current_multiplier(e) * get_hostility_modifier(e), happiness_mod(e))
           e1 == IF choice = "1"
                 THEN ReactEach(e, CharNames, "environmentalist", "deforestation")
                 ELSE e
           e2 == MineEach(e1, action, DOMAIN action, base, eco)
       IN PassiveProduction(e2, BuildingTypes, eco)

----------------------------------------------------------------------------
(* Crafting *)

\* the recipes in the order of the dict, as the menu numbers them
RecipeOrder == <<"coal", "steel", "bronze", "acid", "clorine", "instr", "ancient_tool">>

\* Recipe.inputs, in the order the loops visit them ("research" is the
\* research counter, no stock)
recipe_inputs(k) ==
  CASE k = "coal" -> << <<"wood", K>> >>
    [] k = "steel" -> << <<"coal", K>>, <<"iron", K>> >>
    [] k = "bronze" -> << <<"cooper", 7 * K>>, <<"tin", 3 * K>>, <<"food", K>> >>
    [] k = "acid" -> << <<"sulfur", K>>, <<"water", K>> >>
    [] k = "clorine" -> << <<"salt", K>> >>
    [] k = "instr" -> << <<"bronze", K>>, <<"wood", K>> >>
    [] k = "ancient_tool" -> << <<"instrument", 2 * K>>, <<"steel", K>>, <<"research", 20 * K>> >>

recipe_outputs(k) ==
  CASE k = "coal" -> Cost1("coal", K)
    [] k = "steel" -> Cost1("steel", 1500)
    [] k = "bronze" -> Cost1("bronze", 10 * K)
    [] k = "acid" -> Cost1("sulfur_acid", 500)
    [] k = "clorine" -> Cost1("clorine", K)
    [] k = "instr" -> Cost1("instrument", K)
    [] k = "ancient_tool" -> Cost1("ancient_tool", K)

\* the recipes the menu lists: all but the one whose required technology
\* ("forge_of_souls") is neither discovered nor researched
available_recipes(e) ==
  SelectSeq(RecipeOrder,
            LAMBDA k : k # "ancient_tool"
                       \/ Contains(e.discovered_lore, "forge_of_souls")
                       \/ Contains(e.researched_techs, "forge_of_souls"))

\* mult = current_multiplier * get_hostility_modifier() * craft_speed_multiplier
craft_mult(e) ==
  Mul(current_multiplier(e) * get_hostility_modifier(e), e.craft_speed_multiplier)

\* what the engine holds of an input
craft_stock(e, res) == IF res = "research" THEN e.research_progress ELSE e.resources[res]

\* the debit loop of process_crafting over the inputs ins
RECURSIVE DebitInputs(_, _, _)
DebitInputs(e, ins, mult) ==
  IF ins = <<>> THEN e
  ELSE LET res == Head(ins)[1]
           need == Mul(Head(ins)[2], mult)
           e1 == IF res = "research"
                 THEN [e EXCEPT !.research_progress = @ - need]
                 ELSE adjust_resource(e, res, -need)
       IN DebitInputs(e1, Tail(ins), mult)

\* a crafting loop that debits each input as soon as it has checked it
RECURSIVE DebitWhileChecking(_, _, _)
DebitWhileChecking(e, ins, mult) ==
  IF ins = <<>> THEN e
  ELSE LET res == Head(ins)[1]
           need == Mul(Head(ins)[2], mult)
       IN IF craft_stock(e, res) < need THEN e
          ELSE DebitWhileChecking(DebitInputs(e, <<Head(ins)>>, mult), Tail(ins), mult)

\* a process_crafting without the check that comes before the debits: an
\* input that falls short stops it after the inputs before it were debited
process_crafting_eager(e, i) ==
  LET available == available_recipes(e)
  IN IF i \notin 1..Len(available) THEN [e |-> e, ret |-> FALSE, key |-> ""]
     ELSE LET key == available[i]
              ins == recipe_inputs(key)
              outs == recipe_outputs(key)
              mult == craft_mult(e)
              debited == DebitWhileChecking(e, ins, mult)
          IN IF \E j \in 1..Len(ins) : craft_stock(e, ins[j][1]) < Mul(ins[j][2], mult)
             THEN [e |-> debited, ret |-> FALSE, key |-> key]
             ELSE [e |-> AdjustAll(debited, [r \in DOMAIN outs |-> Mul(outs[r], mult)], 1),
                   ret |-> TRUE, key |-> key]

\* process_crafting with the number i typed in: the engine after it, whether
\* the recipe was made, and the recipe chosen ("" for a number off the menu)
process_crafting(e, i) ==
  LET available == available_recipes(e)
  IN IF i \notin 1..Len(available) THEN [e |-> e, ret |-> FALSE, key |-> ""]
     ELSE LET key == available[i]
              ins == recipe_inputs(key)
              outs == recipe_outputs(key)
              mult == craft_mult(e)
          IN IF \E j \in 1..Len(ins) : craft_stock(e, ins[j][1]) < Mul(ins[j][2], mult)
             THEN [e |-> e, ret |-> FALSE, key |-> key]
             ELSE [e |-> AdjustAll(DebitInputs(e, ins, mult),
                                   [r \in DOMAIN outs |-> Mul(outs[r], mult)], 1),
                   ret |-> TRUE, key |-> key]

----------------------------------------------------------------------------
(* Building and workers *)

\* scaled = {r: v * (1 + self.buildings[btype] * 0.1)}
ScaledCost(e, btype) ==
  [r \in DOMAIN building_costs[btype] |->
     Mul(building_costs[btype][r], K + 100 * Get(e.buildings, btype))]

\* a process_building that debits the cost without looking at the stocks
process_building_unchecked(e, btype) ==
  LET e1 == AdjustAll(e, ScaledCost(e, btype), -1)
  IN IF btype \notin DOMAIN building_costs THEN e
     ELSE IF btype = "store"
     THEN [e1 EXCEPT !.storage_count = @ + 1]
     ELSE [e1 EXCEPT !.buildings[btype] = @ + 1]

\* process_building past its menu: '9' (cancel) and a line that is no row of
\* the menu return at once; a row that names a building type is built if
\* it can be paid ("store" included: the read self.buildings['store']
\* creates that key)
process_building(e, btype) ==
  LET e0 == [e EXCEPT !.buildings = Touch(@, btype)]
      scaled == ScaledCost(e0, btype)
  IN IF btype \notin DOMAIN building_costs THEN e
     ELSE IF ~Affordable(e0, scaled) THEN e0
     ELSE LET e1 == AdjustAll(e0, scaled, -1)
          IN IF btype = "store"
             THEN [e1 EXCEPT !.storage_count = @ + 1]
             ELSE LET e2 == [e1 EXCEPT !.buildings[btype] = @ + 1]
                  IN IF btype = "les"
                     THEN ReactEach(e2, CharNames, "environmentalist", "build_sawmill")
                     ELSE IF btype = "sob"
                     THEN ReactEach(e2, CharNames, "scholar", "build_herbalist")
                     ELSE e2

\* build_quick of the window: the engine after it and what it returned; the
\* store is charged its base cost
build_quick(e, btype) ==
  IF btype \notin DOMAIN building_costs THEN [e |-> e, ret |-> FALSE]
  ELSE LET scaled == IF btype # "store" THEN ScaledCost(e, btype)
                     ELSE Cost2("wood", 20 * K, "rock", 15 * K)
       IN IF ~Affordable(e, scaled) THEN [e |-> e, ret |-> FALSE]
          ELSE LET e1 == AdjustAll(e, scaled, -1)
               IN [e |-> IF btype = "store"
                         THEN [e1 EXCEPT !.storage_count = @ + 1]
                         ELSE [e1 EXCEPT !.buildings[btype] = @ + 1],
                   ret |-> TRUE]

\* one line "b n" typed into _assign_workers_menu
assign_workers(e, b, n) ==
  IF b \notin DOMAIN e.buildings \/ e.buildings[b] <= 0 THEN e
  ELSE LET e1 == [e EXCEPT !.workers = Touch(@, b)]
           delta == n - e1.workers[b]
       IN IF delta > 0 /\ delta > e1.idle_workers THEN e1
          ELSE LET e2 == [e1 EXCEPT !.workers[b] = Max(0, n)]
               IN [e2 EXCEPT !.idle_workers = e2.population - workers_total(e2)]

\* the lines typed into the menu before "done", in order
RECURSIVE assign_workers_menu(_, _)
assign_workers_menu(e, lines) ==
  IF lines = <<>> THEN e
  ELSE assign_workers_menu(assign_workers(e, Head(lines)[1], Head(lines)[2]), Tail(lines))

toggle_multiplier(e) == [e EXCEPT !.multiplier_mode = (@ + 1) % Len(MULTIPLIERS)]

----------------------------------------------------------------------------
(* Victory *)

\* the four conditions of _check_victory, in the order of its list
victory_condition(e, v) ==
  CASE v = "TECHNOLOGICAL" -> e.research_complete
    [] v = "ECONOMIC" -> SumAll(e.resources) > 650 * K
    [] v = "ECOLOGICAL" -> get_overall_health(e) > 85 * K
    [] v = "CULTURAL" -> Len(e.discovered_lore) >= 2

\* the index in VictoryOrder of the first condition that holds, 0 if none
FirstTrue(e) ==
  IF \E i \in 1..4 : victory_condition(e, VictoryOrder[i])
  THEN CHOOSE i \in 1..4 :
         /\ victory_condition(e, VictoryOrder[i])
         /\ \A j \in 1..(i - 1) : ~victory_condition(e, VictoryOrder[j])
  ELSE 0

\* _check_victory: the engine after it, what it returned, and the category
\* whose message it printed ("" when it printed none)
check_victory(e) ==
  IF FirstTrue(e) # 0 /\ ~e.victory_achieved
  THEN [e |-> [e EXCEPT !.victory_achieved = TRUE], ret |-> TRUE,
        msg |-> VictoryOrder[FirstTrue(e)]]
  ELSE [e |-> e, ret |-> FALSE, msg |-> ""]

----------------------------------------------------------------------------
(* Research, technologies, lore *)

\* _research_resources for the resource typed in: the engine after it and
\* the message of the _check_victory call it may make
research_resources(e, resource) ==
  IF resource \notin DOMAIN e.resources \/ e.resources[resource] <= 0
  THEN [e |-> e, msg |-> ""]
  ELSE LET value == Mul(Mul(e.resources[resource], 20), e.research_bonus)
           e1 == [e EXCEPT !.research_progress = @ + value,
                           !.resources[resource] = 0]
       IN IF e1.research_progress >= 100 * K /\ ~e1.research_complete
          THEN LET cv == check_victory([e1 EXCEPT !.research_complete = TRUE])
               IN [e |-> cv.e, msg |-> cv.msg]
          ELSE [e |-> e1, msg |-> ""]

\* the technologies _technology_menu offers, in the order it lists them
RECURSIVE AvailFrom(_, _)
AvailFrom(e, i) ==
  IF i > Len(TechOrder) THEN <<>>
  ELSE LET tid == TechOrder[i]
           req_ok == \A req \in required_techs[tid] : Contains(e.researched_techs, req)
           res_ok == Affordable(e, tech_cost[tid])
           r_ok == e.research_progress >= tech_research[tid]
       IN IF tid \notin e.researched /\ req_ok /\ res_ok /\ r_ok
          THEN <<tid>> \o AvailFrom(e, i + 1)
          ELSE AvailFrom(e, i + 1)

available_techs(e) == AvailFrom(e, 1)

\* mining_efficiency: every amount of every mining action times val
ScaleMining(table, val) ==
  [c \in DOMAIN table |-> [r \in DOMAIN table[c] |-> Mul(table[c][r], val)]]

research_technology(e, tid) ==
  LET e1 == AdjustAll(e, tech_cost[tid], -1)
      e2 == [e1 EXCEPT !.researched = @ \cup {tid},
                       !.researched_techs =
                          IF Contains(@, tid) THEN @ ELSE Append(@, tid)]
  IN CASE tid = "basic_agriculture" ->
            [e2 EXCEPT !.food_production_multiplier = Max(@, 1500)]
       [] tid = "advanced_mining" ->
            [e2 EXCEPT !.mining_actions = ScaleMining(@, 1600)]
       [] tid = "ecology" ->
            [e2 EXCEPT !.happiness = @ + 2 * K]
       [] tid = "industrial_revolution" ->
            [e2 EXCEPT !.craft_speed_multiplier = Mul(@, 1500)]

\* _technology_menu with the number i typed in
technology_menu(e, i) ==
  LET avail == available_techs(e)
  IN IF i \in 1..Len(avail) THEN research_technology(e, avail[i]) ELSE e

apply_secret_effect(e, sid) ==
  CASE sid = "seed_of_prosperity" ->
         [e EXCEPT !.food_production_multiplier = Max(@, 2 * K)]
    [] sid = "memory_crystal" ->
         [e EXCEPT !.trend = Mul(@, 980)]
    [] sid = "forge_of_souls" ->
         [e EXCEPT !.craft_speed_multiplier = Mul(@, 1100)]

\* LoreSystem.discover_secret: the engine after it and what it returned
discover_secret(e, sid) ==
  IF sid \notin SecretIds THEN [e |-> e, ret |-> FALSE]
  ELSE IF sid \in e.discovered THEN [e |-> e, ret |-> FALSE]
  ELSE IF ~(Affordable(e, secret_cost[sid]) /\ e.research_progress >= secret_research[sid])
  THEN [e |-> e, ret |-> FALSE]
  ELSE LET e1 == AdjustAll(e, secret_cost[sid], -1)
           e2 == [e1 EXCEPT !.discovered = @ \cup {sid},
                            !.discovered_lore = Append(@, sid)]
       IN [e |-> apply_secret_effect(e2, sid), ret |-> TRUE]

----------------------------------------------------------------------------
(* DynamicMarket *)

base_prices(r) ==
  CASE r = "wood" -> 1000 [] r = "wine" -> 2000 [] r = "rock" -> 1500
    [] r = "food" -> 1000 [] r = "water" -> 500 [] r = "coal" -> 3000
    [] r = "steel" -> 8000 [] r = "bronze" -> 6000 [] r = "instrument" -> 12000
    [] r = "sand" -> 800 [] r = "clay" -> 900 [] r = "herbs" -> 2500
    [] r = "iron" -> 3500 [] r = "tin" -> 3000 [] r = "cooper" -> 3000
    [] r = "nickel" -> 3500 [] r = "plumb" -> 2500 [] r = "sulfur" -> 1400
    [] r = "salt" -> 700 [] r = "sulfur_acid" -> 5000 [] r = "clorine" -> 4000
    [] r = "ancient_tool" -> 40000
    [] OTHER -> 1000

\* sat = available / capacity against 0.9, 0.15 and 0.3, cross-multiplied
saturation_modifier(e, r) ==
  LET available == e.resources[r]
      capacity == Max(K, IF r # "wine" THEN StorageCap(e) ELSE StorageCap(e) * 10)
  IN IF available * 10 > 9 * capacity THEN 600
     ELSE IF available * 100 < 15 * capacity THEN 1900
     ELSE IF available * 10 < 3 * capacity THEN 1300
     ELSE K

event_modifier(e) ==
  IF InWindow(e.day, e.allah_event, e.event_duration) THEN 1250 ELSE K

HISTORY_WINDOW == 20

\* a get_current_price that stores and averages the price as computed,
\* without the floor of 0.1
get_current_price_unfloored(e, r, noise) ==
  LET m == Mul(Mul(saturation_modifier(e, r), event_modifier(e)), e.trend)
      price == Mul(Mul(base_prices(r), m), noise)
      h1 == Append(e.price_history[r], price)
      h2 == IF Len(h1) > HISTORY_WINDOW THEN Tail(h1) ELSE h1
      avg == SumAll(h2) \div Len(h2)
  IN [e |-> [e EXCEPT !.price_history[r] = h2], price |-> (price + avg) \div 2]

\* the instantaneous price of one call: base * modifiers * noise, floored
InstantPrice(e, r, noise) ==
  Max(100, Mul(Mul(base_prices(r), Mul(Mul(saturation_modifier(e, r), event_modifier(e)), e.trend)), noise))

\* the last n elements of a sequence, in order
LastN(s, n) == IF Len(s) > n THEN SubSeq(s, Len(s) - n + 1, Len(s)) ELSE s

\* a get_current_price whose full window drops the sample just appended
\* and keeps the oldest
get_current_price_newest_out(e, r, noise) ==
  LET price == InstantPrice(e, r, noise)
      h1 == Append(e.price_history[r], price)
      h2 == IF Len(h1) > HISTORY_WINDOW THEN SubSeq(h1, 1, HISTORY_WINDOW) ELSE h1
      avg == SumAll(h2) \div Len(h2)
  IN [e |-> [e EXCEPT !.price_history[r] = h2], price |-> (price + avg) \div 2]

\* get_current_price with noise = 1 + random.uniform(-0.04, 0.04) in
\* thousandths: the engine after it (the history grows) and the price quoted
get_current_price(e, r, noise) ==
  LET m == Mul(Mul(saturation_modifier(e, r), event_modifier(e)), e.trend)
      price == Max(100, Mul(Mul(base_prices(r), m), noise))
      h1 == Append(e.price_history[r], price)
      h2 == IF Len(h1) > HISTORY_WINDOW THEN Tail(h1) ELSE h1
      avg == SumAll(h2) \div Len(h2)
  IN [e |-> [e EXCEPT !.price_history[r] = h2], price |-> (price + avg) \div 2]

\* an execute_trade that takes the wine of a purchase before it looks
\* whether the wine is enough
execute_trade_charged(e, r, amount, is_buying, noise) ==
  LET q == get_current_price(e, r, noise)
      total == Mul(q.price, amount)
      paid == [q.e EXCEPT !.resources["wine"] = @ - total]
  IN IF amount <= 0 THEN [e |-> q.e, ret |-> FALSE]
     ELSE IF is_buying
     THEN IF q.e.resources["wine"] >= total
          THEN [e |-> adjust_resource(paid, r, amount), ret |-> TRUE]
          ELSE [e |-> paid, ret |-> FALSE]
     ELSE IF q.e.resources[r] >= amount
          THEN LET e1 == adjust_resource(q.e, r, -amount)
               IN [e |-> [e1 EXCEPT !.resources["wine"] = @ + total], ret |-> TRUE]
          ELSE [e |-> q.e, ret |-> FALSE]

\* execute_trade: the engine after it and what it returned
execute_trade(e, r, amount, is_buying, noise) ==
  LET q == get_current_price(e, r, noise)
      total == Mul(q.price, amount)
  IN IF amount <= 0 THEN [e |-> q.e, ret |-> FALSE]
     ELSE IF is_buying
     THEN IF q.e.resources["wine"] >= total
          THEN [e |-> adjust_resource([q.e EXCEPT !.resources["wine"] = @ - total], r, amount),
                ret |-> TRUE]
          ELSE [e |-> q.e, ret |-> FALSE]
     ELSE IF q.e.resources[r] >= amount
          THEN LET e1 == adjust_resource(q.e, r, -amount)
               IN [e |-> [e1 EXCEPT !.resources["wine"] = @ + total], ret |-> TRUE]
          ELSE [e |-> q.e, ret |-> FALSE]

\* DynamicMarket.can_trade: it quotes the resource, so the history grows,
\* and tells whether the trade could be paid
can_trade(e, r, amount, is_buying, noise) ==
  LET q == get_current_price(e, r, noise)
      total == Mul(q.price, amount)
  IN [e |-> q.e,
      ret |-> IF is_buying THEN q.e.resources["wine"] >= total
              ELSE q.e.resources[r] >= amount]

\* the elements of a list
Range(s) == {s[i] : i \in 1..Len(s)}

\* the prices a menu prints: one get_current_price call for each resource
\* of the list rs, in its order, each call with its own draw of the noise
RECURSIVE QuoteEach(_, _, _)
QuoteEach(e, rs, noises) ==
  IF rs = <<>> THEN e
  ELSE QuoteEach(get_current_price(e, Head(rs), Head(noises)).e, Tail(rs), Tail(noises))

\* what is typed at a menu that the menu turns away after its prices were
\* listed: no number, a number past the list, or an amount that is no number
NoEntry == "x"

\* pool of _buy_resources, in its order
BuyPool == <<"wood", "rock", "food", "coal", "steel", "herbs", "iron", "tin",
             "cooper", "salt", "sulfur">>

\* _buy_resources from its first prompt on, the prices listed: the entry
\* typed is turned away, or resource r is bought
buy_typed(e, r, amount, noise) ==
  IF r \notin Range(BuyPool) THEN [e |-> e, ret |-> FALSE]
  ELSE execute_trade(e, r, amount, TRUE, noise)

\* _buy_resources: the list of prices, then the entry typed; noises are the
\* draws of random.uniform in the order they are made
buy_resources(e, r, amount, noises) ==
  buy_typed(QuoteEach(e, BuyPool, SubSeq(noises, 1, Len(BuyPool))), r, amount,
            noises[Len(BuyPool) + 1])

\* the keys of self.resources in the order of the dict
ResOrder ==
  <<"wood", "wine", "rock", "food", "water", "sand", "clay", "iron", "cooper",
    "tin", "nickel", "plumb", "salt", "sulfur", "coal", "steel", "bronze",
    "sulfur_acid", "clorine", "builder_materials", "instrument",
    "ancient_tool", "herbs">>

SellPool(e) == {k \in Res : e.resources[k] > 0 /\ k # "wine"}

\* pool of _sell_resources, in its order
SellList(e) == SelectSeq(ResOrder, LAMBDA k : k \in SellPool(e))

\* _sell_resources from its first prompt on, the prices listed
sell_typed(e, r, amount, noise) ==
  IF r \notin SellPool(e) THEN [e |-> e, ret |-> FALSE]
  ELSE execute_trade(e, r, amount, FALSE, noise)

\* _sell_resources: nothing to sell, or the list of prices and the entry
\* typed
sell_resources(e, r, amount, noises) ==
  IF SellPool(e) = {} THEN [e |-> e, ret |-> FALSE]
  ELSE LET n == Len(SellList(e))
       IN sell_typed(QuoteEach(e, SellList(e), SubSeq(noises, 1, n)), r, amount,
                     noises[n + 1])

\* res of _show_market_info, in its order
MarketInfoList ==
  <<"wood", "rock", "food", "coal", "steel", "bronze", "instrument", "herbs",
    "iron", "tin", "cooper", "salt", "sulfur">>

\* _show_market_info: every resource of the list is quoted
show_market_info(e, noises) == QuoteEach(e, MarketInfoList, noises)

----------------------------------------------------------------------------
(* Talking to, trading with and helping a character *)

\* _talk_to_character: below 80 the relationship rises by 5
talk_to_character(e, name) ==
  LET r == e.characters[name].rel
  IN IF r < 80 THEN [e EXCEPT !.characters[name].rel = Min(100, r + 5)] ELSE e

\* what each character sells, in the order of the menu
character_offers ==
  [n \in CharNames |->
     CASE n = "elder" -> <<"wood", "herbs">>
       [] n = "miner" -> <<"rock", "instrument">>
       [] n = "keeper" -> <<"food", "ancient_tool">>]

\* _trade_with_character from its first prompt on, the offers quoted: the
\* entry typed is turned away (i is 0), or offer i is bought at the market's
\* price; a purchase that succeeds adds 2 to the relationship
char_typed(e, name, i, amount, noise) ==
  IF i \notin 1..Len(character_offers[name]) THEN [e |-> e, ret |-> FALSE]
  ELSE LET t == execute_trade(e, character_offers[name][i], amount, TRUE, noise)
       IN IF t.ret
          THEN [e |-> [t.e EXCEPT !.characters[name].rel = Min(100, @ + 2)], ret |-> TRUE]
          ELSE t

\* _trade_with_character: refused below 20; the menu quotes every offer,
\* then the entry typed; noises are the draws of random.uniform in the
\* order they are made
trade_with_character(e, name, i, amount, noises) ==
  IF e.characters[name].rel < 20 THEN [e |-> e, ret |-> FALSE]
  ELSE LET offers == character_offers[name]
       IN char_typed(QuoteEach(e, offers, SubSeq(noises, 1, Len(offers))), name, i,
                     amount, noises[Len(offers) + 1])

\* _help_character_quest: the sacred grove quest is done once the forest is
\* at 80 or more: the quest is removed, the relationship gets 25 more and
\* an ancient tool is added to the stocks
help_character_quest(e, name) ==
  LET c == e.characters[name]
  IN IF Contains(c.quests, "sacred_grove") /\ e.biome_health["forest"] >= 80 * K
     THEN [e EXCEPT !.characters[name].quests = Remove(c.quests, "sacred_grove"),
                    !.characters[name].rel = c.rel + 25,
                    !.resources["ancient_tool"] = @ + K]
     ELSE e

----------------------------------------------------------------------------
(* Save and load *)

serialize(e) ==
  [ day |-> e.day,
    multiplier_mode |-> e.multiplier_mode,
    research_progress |-> e.research_progress,
    research_complete |-> e.research_complete,
    victory_achieved |-> e.victory_achieved,
    craft_speed_multiplier |-> e.craft_speed_multiplier,
    research_bonus |-> e.research_bonus,
    food_production_multiplier |-> e.food_production_multiplier,
    happiness |-> e.happiness,
    eco_industry_penalty |-> e.eco_industry_penalty,
    resources |-> e.resources,
    buildings |-> e.buildings,
    storage_count |-> e.storage_count,
    population |-> e.population,
    idle_workers |-> e.idle_workers,
    workers |-> e.workers,
    researched_techs |-> e.researched_techs,
    characters |-> [i \in 1..Len(CharOrder) |->
                      [name |-> CharOrder[i],
                       relationships |-> e.characters[CharOrder[i]].rel,
                       quests |-> e.characters[CharOrder[i]].quests,
                       memory |-> e.characters[CharOrder[i]].memory]],
    lore |-> [discovered |-> e.discovered_lore],
    events |-> [allah |-> e.allah_event, globu |-> e.globu_event,
                dur |-> e.event_duration] ]

\* data.get(k, default)
GetOr(data, k, default) == IF k \in DOMAIN data THEN data[k] ELSE default

\* a restore that leaves the characters as the engine built them
RestoreCharactersSkipped(e, saved) == e.characters

\* SaveManager.load: None when the file is missing or json.load raises
load(file) == IF file = Unparseable THEN NoSave ELSE file

\* `if data:` after load: None and the empty dict are both false
Loaded(file) == load(file) # NoSave /\ DOMAIN load(file) # {}

\* the loop over data["characters"]: cd["name"] raises KeyError at the first
\* entry without a name, the entries before it are restored
RECURSIVE RestoreEach(_, _, _)
RestoreEach(chars, saved, i) ==
  IF i > Len(saved) \/ "name" \notin DOMAIN saved[i] THEN chars
  ELSE LET cd == saved[i]
           n == cd.name
       IN RestoreEach(
            IF n \in CharNames
            THEN [chars EXCEPT ![n] =
                    [rel |-> GetOr(cd, "relationships", chars[n].rel),
                     quests |-> GetOr(cd, "quests", chars[n].quests),
                     memory |-> GetOr(cd, "memory", chars[n].memory)]]
            ELSE chars,
            saved, i + 1)

\* the characters of the engine, each one the save names overwritten
RestoreCharacters(e, saved) == RestoreEach(e.characters, saved, 1)

\* deserialize raises KeyError: some character entry has no name
deserialize_raises(data) ==
  LET saved == GetOr(data, "characters", <<>>)
  IN \E i \in 1..Len(saved) : "name" \notin DOMAIN saved[i]

\* a restore of the event windows that keeps what the constructor drew
restore_events_redrawn(e, data) == <<e.allah_event, e.globu_event, e.event_duration>>

\* the last lines of deserialize: allah_event, globu_event and
\* event_duration, each the saved one, or the engine's if the save has none
restore_events(e, data) ==
  LET ev == GetOr(data, "events", EmptyMap)
  IN <<GetOr(ev, "allah", e.allah_event), GetOr(ev, "globu", e.globu_event),
       GetOr(ev, "dur", e.event_duration)>>

\* deserialize: the fields it assigns (when it raises, those assigned before
\* the KeyError); the technologies' researched flags,
\* the secrets' discovered flags, the achievements, the mining table, the
\* biomes and the market stay those of the engine it is called on
deserialize(e, data) ==
  LET pop == GetOr(data, "population", base_population)
  IN [e EXCEPT
        !.day = GetOr(data, "day", 0),
        !.multiplier_mode = GetOr(data, "multiplier_mode", 0),
        !.research_progress = GetOr(data, "research_progress", 0),
        !.research_complete = GetOr(data, "research_complete", FALSE),
        !.victory_achieved = GetOr(data, "victory_achieved", FALSE),
        !.craft_speed_multiplier = GetOr(data, "craft_speed_multiplier", K),
        !.research_bonus = GetOr(data, "research_bonus", K),
        !.food_production_multiplier = GetOr(data, "food_production_multiplier", K),
        !.happiness = GetOr(data, "happiness", 50 * K),
        !.eco_industry_penalty = GetOr(data, "eco_industry_penalty", K),
        !.resources = GetOr(data, "resources", EmptyMap),
        !.buildings = GetOr(data, "buildings", EmptyMap),
        !.storage_count = GetOr(data, "storage_count", 1),
        !.population = pop,
        !.idle_workers = GetOr(data, "idle_workers", pop),
        !.workers = GetOr(data, "workers", EmptyMap),
        !.researched_techs = GetOr(data, "researched_techs", <<>>),
        !.characters = RestoreCharacters(e, GetOr(data, "characters", <<>>)),
        !.discovered_lore = IF deserialize_raises(data) THEN e.discovered_lore
                            ELSE GetOr(GetOr(data, "lore", EmptyMap), "discovered", <<>>),
        !.allah_event = IF deserialize_raises(data) THEN e.allah_event
                        ELSE restore_events(e, data)[1],
        !.globu_event = IF deserialize_raises(data) THEN e.globu_event
                        ELSE restore_events(e, data)[2],
        !.event_duration = IF deserialize_raises(data) THEN e.event_duration
                           ELSE restore_events(e, data)[3]]

----------------------------------------------------------------------------
(* End of day *)

\* an _end_of_day whose hunger roll takes a settler on a fed day as well
end_of_day_plague(e, starve, birth) ==
  LET food_need == e.population * pop_food_per_day
      fed == e.resources["food"] >= food_need
      e1 == IF fed
            THEN [adjust_resource(e, "food", -food_need) EXCEPT
                    !.happiness = Min(100 * K, @ + 500)]
            ELSE [e EXCEPT !.resources["food"] = 0]
  IN IF starve /\ e1.population > 1
     THEN [e1 EXCEPT !.population = @ - 1,
                     !.idle_workers = Max(0, e1.population - 1 - workers_total(e1))]
     ELSE e1

\* an _end_of_day whose hunger takes a settler without asking whether the
\* settler is the last one
end_of_day_last_settler(e, starve, birth) ==
  LET food_need == e.population * pop_food_per_day
      fed == e.resources["food"] >= food_need
      deficit == food_need - e.resources["food"]
      e1 == IF fed
            THEN [adjust_resource(e, "food", -food_need) EXCEPT
                    !.happiness = Min(100 * K, @ + 500)]
            ELSE [e EXCEPT !.resources["food"] = 0,
                           !.happiness = Max(0, @ - 2500 - Mul(deficit, 500))]
      e2 == IF ~fed /\ starve
            THEN [e1 EXCEPT !.population = @ - 1,
                            !.idle_workers = Max(0, e1.population - 1 - workers_total(e1))]
            ELSE e1
      e3 == IF e2.happiness > 50 * K
            THEN [e2 EXCEPT !.happiness = Max(50 * K, @ - happiness_decay)]
            ELSE IF e2.happiness < 50 * K
            THEN [e2 EXCEPT !.happiness = Min(50 * K, @ + happiness_decay)]
            ELSE e2
  IN IF e3.happiness >= 70 * K /\ birth
     THEN [e3 EXCEPT !.population = @ + 1, !.idle_workers = @ + 1]
     ELSE e3

\* _end_of_day up to the autosave; starve and birth are what the two
\* random.random() rolls came to (below 0.1, below 0.12)
end_of_day(e, starve, birth) ==
  LET food_need == e.population * pop_food_per_day
      fed == e.resources["food"] >= food_need
      deficit == food_need - e.resources["food"]
      e1 == IF fed
            THEN [adjust_resource(e, "food", -food_need) EXCEPT
                    !.happiness = Min(100 * K, @ + 500)]
            ELSE [e EXCEPT !.resources["food"] = 0,
                           !.happiness = Max(0, @ - 2500 - Mul(deficit, 500))]
      e2 == IF ~fed /\ starve /\ e1.population > 1
            THEN [e1 EXCEPT !.population = @ - 1,
                            !.idle_workers = Max(0, e1.population - 1 - workers_total(e1))]
            ELSE e1
      e3 == IF e2.happiness > 50 * K
            THEN [e2 EXCEPT !.happiness = Max(50 * K, @ - happiness_decay)]
            ELSE IF e2.happiness < 50 * K
            THEN [e2 EXCEPT !.happiness = Min(50 * K, @ + happiness_decay)]
            ELSE e2
  IN IF e3.happiness >= 70 * K /\ birth
     THEN [e3 EXCEPT !.population = @ + 1, !.idle_workers = @ + 1]
     ELSE e3

----------------------------------------------------------------------------
(* The console driver: main and game_loop *)

\* bounds of the model: the last day a turn may begin on, and the lines
\* typed into the workers menu before "done"
MaxDay == 5

MaxLines == 1

\* how many times the program may be started, and how many times a save
\* may be loaded with 'r'
MaxRuns == 2

MaxLoads == 1

\* the windows the first start draws
FirstDraw == <<20, 120, 20>>

\* the event windows the constructor may draw (randint(20, 60),
\* randint(120, 180), randint(20, 60)): two of the draws
EventDraws == {<<20, 120, 20>>, <<60, 180, 60>>}

\* the noise a price may be quoted with, in thousandths: the two ends and
\* the middle of 1 + uniform(-0.04, 0.04)
NoiseDraws == {960, 1000, 1040}

\* the draws of the noise of one menu, in the order they are made: the same
\* draw every time, or the low end, the high end and the middle in turn
NoisePlans == {<<960>>, <<K>>, <<1040>>, <<960, 1040, K>>}

\* the first n draws of each plan
NoiseRuns(plans, n) ==
  {[k \in 1..n |-> plan[((k - 1) % Len(plan)) + 1]] : plan \in plans}

\* trade amounts typed in, in thousandths (float(input()))
TradeAmounts == {-1000, 0, 5000, 20000}

NoReport == [latched |-> "", final |-> ""]

NoOp == [op |-> "none", ret |-> FALSE, key |-> "", amount |-> 0]

Init ==
  /\ g = NewEngine("normal", FirstDraw[1], FirstDraw[2], FirstDraw[3])
  /\ disk = NoSave
  /\ pc = "top"
  /\ first_turn = TRUE
  /\ last = NoOp
  /\ report = NoReport
  /\ runs = 1
  /\ loads = 0
  /\ presses = 0

\* _display_status reads self.workers[k] of every type with a building
RECURSIVE TouchWorkers(_, _)
TouchWorkers(w, bs) ==
  IF bs = {} THEN w
  ELSE LET b == CHOOSE x \in bs : TRUE IN TouchWorkers(Touch(w, b), bs \ {b})

display_status(e) ==
  [e EXCEPT !.workers = TouchWorkers(@, {b \in DOMAIN e.buildings : e.buildings[b] > 0})]

\* the head of the loop body up to input(): status, ecosystem tick,
\* achievements, random event; last.ret tells whether the tick, the
\* achievements and the event changed anything a snapshot holds
BeginTurn(events, maxday) ==
  /\ pc = "top"
  /\ ~g.victory_achieved
  /\ g.day < maxday
  /\ \E ev \in events :
       LET e == process_random_events(
                  check_achievements(update_ecosystem(display_status(g))), ev)
       IN /\ g' = e
          /\ last' = [NoOp EXCEPT !.op = "random_event", !.key = ev,
                                  !.ret = (serialize(e) # serialize(display_status(g)))]
  /\ pc' = "input"
  /\ UNCHANGED <<disk, first_turn, report, runs, loads, presses>>

\* while not self.victory_achieved: false
LoopExit ==
  /\ pc = "top"
  /\ g.victory_achieved
  /\ pc' = "final"
  /\ UNCHANGED <<g, disk, first_turn, last, report, runs, loads, presses>>

\* what every command that falls through to the end of the day leaves
Played(e, op, turn) ==
  /\ g' = e
  /\ last' = op
  /\ first_turn' = turn
  /\ pc' = "dayend"
  /\ UNCHANGED <<disk, report, runs, loads, presses>>

CmdMine(choices) ==
  /\ pc = "input"
  /\ \E c \in choices :
       Played(process_mining(g, c), NoOp, FALSE)

\* the lines typed into the building menu that build nothing: '9' (cancel)
\* and a line that is no row of the menu
BuildBack == {"9", NoEntry}

\* '7' and a line typed into the menu: the row of a building, '9' or
\* anything else; last.ret tells whether it was built
CmdBuild(types) ==
  /\ pc = "input"
  /\ \E b \in types :
       LET e == process_building(g, b)
       IN Played(e, [NoOp EXCEPT !.op = "build", !.key = b,
                                 !.ret = (e.resources # g.resources)], FALSE)

\* the prompts of the loop and of its menus: the program waits for a line
Prompts == {"input", "workers", "buying", "selling", "offers"}

\* '7', then '8': the workers menu opens; last.amount counts its lines
AssignOpen ==
  /\ pc = "input"
  /\ pc' = "workers"
  /\ last' = [last EXCEPT !.op = "workers", !.amount = 0]
  /\ UNCHANGED <<g, disk, first_turn, report, runs, loads, presses>>

\* one line of the menu, up to MaxLines lines
AssignLine(types) ==
  /\ pc = "workers"
  /\ last.amount < MaxLines
  /\ \E b \in types, n \in {0, 1, g.population, g.population + 1} :
       g' = assign_workers(g, b, n)
  /\ last' = [last EXCEPT !.amount = @ + 1]
  /\ UNCHANGED <<disk, pc, first_turn, report, runs, loads, presses>>

\* "done"
AssignDone ==
  /\ pc = "workers"
  /\ Played(g, NoOp, FALSE)

CmdAssign(types) == AssignOpen \/ AssignLine(types) \/ AssignDone

CmdToggle ==
  /\ pc = "input"
  /\ Played(toggle_multiplier(g), NoOp, first_turn)

\* 'd': taken only while first_turn holds, and it leaves first_turn alone;
\* a word that is none of the three changes nothing
CmdDifficulty ==
  /\ pc = "input"
  /\ \E d \in Difficulties \cup {NoEntry} :
       Played(IF first_turn /\ d \in Difficulties
              THEN apply_difficulty([g EXCEPT !.difficulty = d], d) ELSE g,
              NoOp, first_turn)

\* 'm', '1': the prices of the pool are listed, and the menu waits
BuyListed(plans) ==
  /\ pc = "input"
  /\ \E noises \in NoiseRuns(plans, Len(BuyPool)) : g' = QuoteEach(g, BuyPool, noises)
  /\ pc' = "buying"
  /\ last' = [last EXCEPT !.op = "prices"]
  /\ UNCHANGED <<disk, first_turn, report, runs, loads, presses>>

\* the entry and the amount typed
BuyTyped(pool, amounts, noises) ==
  /\ pc = "buying"
  /\ \E r \in pool, a \in amounts, noise \in noises :
       LET t == buy_typed(g, r, a, noise)
       IN Played(t.e, [op |-> "buy", ret |-> t.ret, key |-> r, amount |-> a], FALSE)

CmdBuy(pool, plans, amounts, noises) ==
  BuyListed(plans) \/ BuyTyped(pool, amounts, noises)

\* 'm', '2' with nothing to sell
SellNothing ==
  /\ pc = "input"
  /\ SellPool(g) = {}
  /\ Played(g, [NoOp EXCEPT !.op = "sell", !.key = NoEntry], FALSE)

\* 'm', '2': the prices of what is held are listed, and the menu waits
SellListed ==
  /\ pc = "input"
  /\ SellPool(g) # {}
  /\ \E noises \in NoiseRuns(NoisePlans, Len(SellList(g))) : g' = QuoteEach(g, SellList(g), noises)
  /\ pc' = "selling"
  /\ last' = [last EXCEPT !.op = "prices"]
  /\ UNCHANGED <<disk, first_turn, report, runs, loads, presses>>

SellTyped(pool) ==
  /\ pc = "selling"
  /\ \E r \in pool, a \in TradeAmounts, noise \in NoiseDraws :
       LET t == sell_typed(g, r, a, noise)
       IN Played(t.e, [op |-> "sell", ret |-> t.ret, key |-> r, amount |-> a], FALSE)

CmdSell(pool) == SellNothing \/ SellListed \/ SellTyped(pool)

\* 'm' and a row that neither buys nor sells: '3' shows the prices of the
\* market, '4' and any other line go back with nothing done
CmdPrices(rows) ==
  /\ pc = "input"
  /\ \E row \in rows :
       IF row = "3"
       THEN \E noises \in NoiseRuns(NoisePlans, Len(MarketInfoList)) :
              Played(show_market_info(g, noises), [NoOp EXCEPT !.op = "prices"], FALSE)
       ELSE Played(g, [NoOp EXCEPT !.op = "market", !.key = row], FALSE)

CmdResearch(pool) ==
  /\ pc = "input"
  /\ \E r \in pool :
       LET t == research_resources(g, r)
       IN /\ g' = t.e
          /\ last' = NoOp
          /\ report' = IF t.msg # "" THEN [report EXCEPT !.latched = t.msg] ELSE report
          /\ first_turn' = FALSE
          /\ pc' = "dayend"
          /\ UNCHANGED <<disk, runs, loads, presses>>

CmdTech ==
  /\ pc = "input"
  /\ \E i \in 1..Len(TechOrder) :
       Played(technology_menu(g, i), NoOp, FALSE)

CmdLore(ids) ==
  /\ pc = "input"
  /\ \E sid \in ids :
       LET t == discover_secret(g, sid)
       IN Played(t.e, [NoOp EXCEPT !.op = "lore", !.key = sid, !.ret = t.ret], FALSE)

\* 's': last.key and last.ret stay those of the turn's head, the event drawn
\* and whether the snapshot holds its effects
CmdSave ==
  /\ pc = "input"
  /\ disk' = serialize(g)
  /\ last' = [NoOp EXCEPT !.op = "save", !.key = last.key, !.ret = last.ret]
  /\ pc' = "dayend"
  /\ UNCHANGED <<g, first_turn, report, runs, loads, presses>>

CmdLoad ==
  /\ pc = "input"
  /\ loads < MaxLoads
  /\ g' = IF Loaded(disk) THEN deserialize(g, load(disk)) ELSE g
  /\ last' = [NoOp EXCEPT !.op = "load", !.ret = Loaded(disk)]
  /\ loads' = loads + 1
  /\ pc' = IF Loaded(disk) /\ deserialize_raises(load(disk)) THEN "crashed" ELSE "dayend"
  /\ UNCHANGED <<disk, first_turn, report, runs, presses>>

\* 'q': save and break
CmdQuit ==
  /\ pc = "input"
  /\ disk' = serialize(g)
  /\ last' = [NoOp EXCEPT !.op = "quit", !.key = last.key, !.ret = last.ret]
  /\ pc' = "final"
  /\ UNCHANGED <<g, first_turn, report, runs, loads, presses>>

\* Ctrl-C at a prompt, of the loop or of a menu: KeyboardInterrupt leaves
\* game_loop, main saves and returns
Interrupt ==
  /\ pc \in Prompts
  /\ disk' = serialize(g)
  /\ last' = [NoOp EXCEPT !.op = "interrupt", !.key = last.key, !.ret = last.ret]
  /\ pc' = "exited"
  /\ UNCHANGED <<g, first_turn, report, runs, loads, presses>>

\* self.day += 1; self._end_of_day(), the autosave included; last.ret tells
\* whether the food was enough, last.amount what the settlers needed
DayEnd(starves, births) ==
  /\ pc = "dayend"
  /\ \E starve \in starves, birth \in births :
       LET e == end_of_day([g EXCEPT !.day = @ + 1], starve, birth)
       IN /\ g' = e
          /\ disk' = IF e.day % autosave_every = 0 THEN serialize(e) ELSE disk
  /\ last' = [NoOp EXCEPT !.op = "end_of_day",
                          !.ret = (g.resources["food"] >= g.population * pop_food_per_day),
                          !.amount = g.population * pop_food_per_day]
  /\ pc' = "victory"
  /\ UNCHANGED <<first_turn, report, runs, loads, presses>>

\* if self._check_victory(): break
Victory ==
  /\ pc = "victory"
  /\ LET cv == check_victory(g)
     IN /\ g' = cv.e
        /\ last' = [NoOp EXCEPT !.op = "check_victory", !.ret = cv.ret]
        /\ report' = IF cv.ret THEN [report EXCEPT !.latched = cv.msg] ELSE report
        /\ pc' = IF cv.ret THEN "final" ELSE "top"
  /\ UNCHANGED <<disk, first_turn, runs, loads, presses>>

\* the end of game_loop: the victory type printed is calculate_final_legacy's
Final ==
  /\ pc = "final"
  /\ report' = [report EXCEPT !.final =
                  IF g.victory_achieved THEN calculate_final_legacy(g) ELSE ""]
  /\ last' = NoOp
  /\ pc' = "exited"
  /\ UNCHANGED <<g, disk, first_turn, runs, loads, presses>>

\* the program is started again: main builds an engine and loads the save;
\* an exception out of deserialize ends the program with a traceback;
\* last.amount keeps the allah_event the constructor drew
Restart ==
  /\ pc = "exited"
  /\ runs < MaxRuns
  /\ runs' = runs + 1
  /\ \E ev \in EventDraws :
       LET fresh == NewEngine("normal", ev[1], ev[2], ev[3])
       IN /\ g' = IF Loaded(disk) THEN deserialize(fresh, load(disk)) ELSE fresh
       /\ last' = [NoOp EXCEPT !.op = "restart", !.ret = Loaded(disk), !.amount = ev[1]]
  /\ pc' = IF Loaded(disk) /\ deserialize_raises(load(disk)) THEN "crashed" ELSE "top"
  /\ first_turn' = TRUE
  /\ report' = NoReport
  /\ UNCHANGED <<disk, loads, presses>>

\* '8' and the number of a recipe
CmdCraft(numbers) ==
  /\ pc = "input"
  /\ \E i \in numbers :
       LET t == process_crafting(g, i)
       IN Played(t.e, [NoOp EXCEPT !.op = "craft", !.key = t.key, !.ret = t.ret], FALSE)

\* process_character_interaction and _interact_with_character for the
\* rows that neither trade nor help: a line that is no number of a character
\* is turned away, '1' talks, '4' and any other line go back
interact_with_character(e, s, ch) ==
  IF s \notin CharNames THEN e
  ELSE IF ch = "1" THEN talk_to_character(e, s)
  ELSE e

\* 'c', a line for the character and a line for the action; last.ret
\* tells whether the character was talked to
CmdTalk(names, acts) ==
  /\ pc = "input"
  /\ \E n \in names, ch \in acts :
       Played(interact_with_character(g, n, ch),
              [NoOp EXCEPT !.op = "talk", !.key = n,
                           !.ret = (n \in CharNames /\ ch = "1")], FALSE)

\* 'c', the number of a character, '2', without the trust of the character
CharRefused(names) ==
  /\ pc = "input"
  /\ \E n \in names :
       /\ g.characters[n].rel < 20
       /\ Played(g, [NoOp EXCEPT !.op = "chartrade", !.key = n], FALSE)

\* 'c', the number of a character, '2': the offers are quoted, and the menu
\* waits; last.key keeps the character
CharOffers(names, plans) ==
  /\ pc = "input"
  /\ \E n \in names :
       /\ g.characters[n].rel >= 20
       /\ \E noises \in NoiseRuns(plans, Len(character_offers[n])) :
            g' = QuoteEach(g, character_offers[n], noises)
       /\ last' = [last EXCEPT !.op = "offers", !.key = n]
  /\ pc' = "offers"
  /\ UNCHANGED <<disk, first_turn, report, runs, loads, presses>>

\* the number of an offer and an amount typed
CharTyped(entries, amounts, noises) ==
  /\ pc = "offers"
  /\ \E i \in entries, a \in amounts, noise \in noises :
       LET t == char_typed(g, last.key, i, a, noise)
       IN Played(t.e, [op |-> "chartrade", ret |-> t.ret, key |-> last.key,
                       amount |-> a], FALSE)

CmdCharTrade(names, plans, entries, amounts, noises) ==
  CharRefused(names) \/ CharOffers(names, plans) \/ CharTyped(entries, amounts, noises)

\* 'c', the number of a character, '3': help with a quest
CmdQuest(names) ==
  /\ pc = "input"
  /\ \E n \in names :
       Played(help_character_quest(g, n),
              [NoOp EXCEPT !.op = "quest", !.key = n,
                           !.ret = (help_character_quest(g, n) # g)], FALSE)

\* any other key: "Неизвестная команда", Enter, and the loop continues
\* without ending the day
CmdUnknown ==
  /\ pc = "input"
  /\ pc' = "top"
  /\ last' = NoOp
  /\ UNCHANGED <<g, disk, first_turn, report, runs, loads, presses>>

\* The settlement: wood, a sawmill and its workers, storms, hunger, and
\* the save across a restart
Next ==
  \/ BeginTurn({"none"}, MaxDay)
  \/ CmdMine({"1"})
  \/ CmdBuild({"les"} \cup BuildBack)
  \/ CmdAssign({"les"})
  \/ CmdQuit
  \/ DayEnd(BOOLEAN, BOOLEAN)
  \/ Victory
  \/ Final
  \/ Restart

Spec == Init /\ [][Next]_vars

\* the last day a turn of the lore game may begin on
LoreDays == 6

\* The lore game: the hundredfold multiplier, rock, water, the memory
\* crystal, and the save across a restart
NextLore ==
  \/ BeginTurn({"none"}, LoreDays)
  \/ CmdToggle
  \/ CmdMine({"3", "4"})
  \/ CmdLore({"memory_crystal"})
  \/ CmdQuit
  \/ DayEnd(BOOLEAN, {FALSE})
  \/ Victory
  \/ Final
  \/ Restart

SpecLore == Init /\ [][NextLore]_vars

\* the last day a turn of the first-turn game may begin on
StockDays == 6

\* The first-turn game: nothing but 'd' typed, day after day, and the
\* forest fires in between
NextStock ==
  \/ BeginTurn({"none", "fire"}, StockDays)
  \/ CmdDifficulty
  \/ DayEnd(BOOLEAN, BOOLEAN)
  \/ Victory

SpecStock == Init /\ [][NextStock]_vars

\* the last day a turn of the market game may begin on
MarketDays == 2

\* what the other player of the market game researches away, one stock a
\* day, before going to the market with nothing to sell
BurnPlan == <<"wood", "rock", "food">>

\* that player is known by the research progress made on the first day
Burner == g.research_progress > 0

BurnPlanned(c) ==
  /\ g.day < Len(BurnPlan) /\ BurnPlan[g.day + 1] = c
  /\ (g.day = 0 \/ Burner)

\* The market game: wood bought and sold for wine by one player; wood, rock
\* and food researched away by the other, who then has nothing to sell
NextMarket ==
  \/ BeginTurn({"none"}, IF Burner THEN Len(BurnPlan) + 1 ELSE MarketDays)
  \/ ~Burner /\ CmdBuy({"wood", NoEntry}, NoisePlans, TradeAmounts, NoiseDraws)
  \/ ~Burner /\ CmdSell({"wood", NoEntry})
  \/ Burner /\ g.day = Len(BurnPlan) /\ CmdSell({"wood", NoEntry})
  \/ ~Burner /\ CmdPrices({"3", "4", NoEntry})
  \/ \E r \in Res : BurnPlanned(r) /\ CmdResearch({r})
  \/ DayEnd(BOOLEAN, BOOLEAN)
  \/ Victory

SpecMarket == Init /\ [][NextMarket]_vars

\* the keys a player after the cultural victory types, one a day: the
\* hundredfold multiplier, wine twice researched into progress, food and
\* water, rock, and the two secrets
CulturePlan ==
  <<"0", "0", "2", "2", "wine", "2", "wine", "4", "3",
    "seed_of_prosperity", "memory_crystal">>

\* the key the plan has for the day
Planned(c) == g.day < Len(CulturePlan) /\ CulturePlan[g.day + 1] = c

\* the last day a turn of the culture game may begin on
CultureDays == 11

\* The culture game: the plan played against the rolls of the day's end
NextCulture ==
  \/ BeginTurn({"none", "rain"}, CultureDays)
  \/ Planned("0") /\ CmdToggle
  \/ \E c \in {"2", "3", "4"} : Planned(c) /\ CmdMine({c})
  \/ Planned("wine") /\ CmdResearch({"wine"})
  \/ \E sid \in SecretIds : Planned(sid) /\ CmdLore({sid})
  \/ DayEnd(BOOLEAN, BOOLEAN)
  \/ Victory
  \/ Final

SpecCulture == Init /\ [][NextCulture]_vars

----------------------------------------------------------------------------
(* The engine called directly: adjust_resource on the stocks of an engine
   that has taken difficulty bonuses and built stores *)

\* the stocks adjusted and the deltas applied, in thousandths
AdjustKeys == {"wood", "rock", "wine"}

AdjustDeltas == {-50 * K, 50 * K, 150 * K}

\* how high a call may take a stock, in units, and how many times the easy
\* bonus may be taken
AdjustLimit == 200

MaxEasy == 3

\* how many stores there may be
MaxStores == 2

\* adjust_resource(key, delta), a negative delta after the caller's check
\* that the stock affords it; last.ret tells whether the stock was above the
\* capacity before the call
CallAdjust ==
  \E key \in AdjustKeys, delta \in AdjustDeltas :
    /\ g.resources[key] + delta <= AdjustLimit * K
    /\ g.resources[key] + delta >= 0
    /\ g' = adjust_resource(g, key, delta)
    /\ last' = [op |-> "adjust", ret |-> g.resources[key] > StorageCap(g),
                key |-> key, amount |-> delta]
    /\ UNCHANGED <<disk, pc, first_turn, report, runs, loads, presses>>

\* cfg.apply_difficulty(self) with the easy bonuses
CallDifficulty ==
  /\ g.happiness < (50 + 10 * MaxEasy) * K
  /\ g' = apply_difficulty([g EXCEPT !.difficulty = "easy"], "easy")
  /\ last' = NoOp
  /\ UNCHANGED <<disk, pc, first_turn, report, runs, loads, presses>>

\* process_building with the store chosen
CallBuildStore ==
  /\ g.storage_count < MaxStores
  /\ g' = process_building(g, "store")
  /\ g' # g
  /\ last' = NoOp
  /\ UNCHANGED <<disk, pc, first_turn, report, runs, loads, presses>>

NextAdjust ==
  \/ CallAdjust
  \/ CallDifficulty
  \/ CallBuildStore

SpecAdjust == Init /\ [][NextAdjust]_vars

\* The sawmill and the forest: a difficulty, wood, a sawmill, its workers,
\* then days of felling while fires may break out
EcoPlan == <<"d", "1", "1", "7", "8", "1", "1", "1">>

EcoPlanned(c) == g.day < Len(EcoPlan) /\ EcoPlan[g.day + 1] = c

\* the last day a turn of that game may begin on
EcoDays == 8

NextEco ==
  \/ BeginTurn({"none", "fire"}, EcoDays)
  \/ EcoPlanned("d") /\ CmdDifficulty
  \/ EcoPlanned("1") /\ CmdMine({"1"})
  \/ EcoPlanned("7") /\ CmdBuild({"les"} \cup BuildBack)
  \/ EcoPlanned("8") /\ CmdAssign({"les"})
  \/ DayEnd(BOOLEAN, BOOLEAN)
  \/ Victory

SpecEco == Init /\ [][NextEco]_vars

\* The elder: six talks, a purchase, then any number of turns that do not
\* end the day while the forest grows back, and the sacred grove quest
ElderPlan == <<"talk", "talk", "talk", "talk", "talk", "talk", "trade", "help">>

\* The feller: wood felled on the first day, which costs the trust of the
\* elder, a purchase asked of the elder on the second, and on the third a
\* visit that is talked through, broken off or never begun
FellerPlan == <<"1", "trade", "back">>

\* the feller is known by the trust lost
Feller == g.characters["elder"].rel < 20

ElderPlanned(c) == ~Feller /\ g.day < Len(ElderPlan) /\ ElderPlan[g.day + 1] = c

FellerPlanned(c) ==
  /\ g.day < Len(FellerPlan) /\ FellerPlan[g.day + 1] = c
  /\ (g.day = 0 \/ Feller)

\* the last day a turn of that game may begin on
ElderDays == 8

NextElder ==
  \/ BeginTurn({"none"}, IF Feller THEN Len(FellerPlan) ELSE ElderDays)
  \/ ElderPlanned("talk") /\ CmdTalk({"elder"}, {"1"})
  \/ FellerPlanned("back") /\ CmdTalk({"elder", NoEntry}, {"1", "4"})
  \/ FellerPlanned("1") /\ CmdMine({"1"})
  \/ ElderPlanned("trade") /\ CmdCharTrade({"elder"}, NoisePlans, 0..2, {5 * K}, {K})
  \/ FellerPlanned("trade") /\ CmdCharTrade({"elder"}, NoisePlans, 0..2, {5 * K}, {K})
  \/ ElderPlanned("help") /\ CmdQuest({"elder"})
  \/ ElderPlanned("help") /\ CmdUnknown
  \/ DayEnd(BOOLEAN, BOOLEAN)
  \/ Victory

SpecElder == Init /\ [][NextElder]_vars

\* The builders: the hundredfold multiplier, wood and rock to the brim,
\* then eight days of building sawmills, fields and stores; nobody starves
BuildPlan == <<"0", "0", "1", "3", "7", "7", "7", "7", "7", "7", "7", "7">>

BuildPlanned(c) == g.day < Len(BuildPlan) /\ BuildPlan[g.day + 1] = c

\* the last day a turn of that game may begin on
BuildDays == 12

NextBuild ==
  \/ BeginTurn({"none"}, BuildDays)
  \/ BuildPlanned("0") /\ CmdToggle
  \/ \E c \in {"1", "3"} : BuildPlanned(c) /\ CmdMine({c})
  \/ BuildPlanned("7") /\ CmdBuild({"les", "pol", "store"} \cup BuildBack)
  \/ DayEnd({FALSE}, {FALSE})
  \/ Victory

SpecBuild == Init /\ [][NextBuild]_vars

\* The forge: the multiplier, a deposit of iron and coal found on any day,
\* coal burnt from wood and steel made of coal and iron
CraftDays == 5

NextCraft ==
  \/ BeginTurn({"none", "deposit"}, CraftDays)
  \/ CmdToggle
  \/ CmdCraft(0..2)
  \/ DayEnd({FALSE}, {FALSE})
  \/ Victory

SpecCraft == Init /\ [][NextCraft]_vars

----------------------------------------------------------------------------
\* the last day a turn of the saving game may begin on
SaveDays == 3

\* what a damaged save file may hold: nothing json can parse, the empty
\* object, the snapshot without its day, without its characters, or with a
\* character entry that lost its name
Nameless(cd) == [k \in DOMAIN cd \ {"name"} |-> cd[k]]

Without(data, field) == [k \in DOMAIN data \ {field} |-> data[k]]

CorruptSaves(file) ==
  {Unparseable, EmptyMap}
    \cup (IF Loaded(file)
          THEN {Without(file, f) : f \in {"day", "characters"} \cap DOMAIN file}
                 \cup (IF "characters" \in DOMAIN file
                       THEN {[file EXCEPT !.characters[i] = Nameless(@)] :
                               i \in 1..Len(file.characters)}
                       ELSE {})
          ELSE {})

\* the save file is damaged, between two runs of the program or while it
\* waits at the prompt
Corrupt ==
  /\ \/ pc = "exited" /\ runs < MaxRuns
     \/ pc = "input" /\ loads < MaxLoads
  /\ disk' \in CorruptSaves(disk) \ {disk}
  /\ last' = [NoOp EXCEPT !.op = "corrupt"]
  /\ UNCHANGED <<g, pc, first_turn, report, runs, loads, presses>>

\* the last day a turn of the loading game may begin on
LoadDays == 2

\* The loading game: the elder talked to, the save written on 'q' and on
\* Ctrl-C, damaged, and loaded by main and by 'r'
NextLoad ==
  \/ BeginTurn({"none"}, LoadDays)
  \/ CmdTalk({"elder", NoEntry}, {"1", "4"})
  \/ CmdLoad
  \/ CmdQuit
  \/ Interrupt
  \/ Corrupt
  \/ DayEnd({FALSE}, {FALSE})
  \/ Victory
  \/ Final
  \/ Restart

SpecLoad == Init /\ [][NextLoad]_vars

\* The price desk: get_current_price called on engines whose stock, stores,
\* day and trend are drawn from the sets below
PriceRes == {"water", "wine", "ancient_tool", "builder_materials"}

\* stocks at 0, 24, 48 and 96 percent of the capacity with one store (125)
PriceStocks == {0, 30 * K, 60 * K, 120 * K}

PriceStores == {1, 2}

\* a day outside the market event and the first day of it
PriceDays == {0, FirstDraw[1]}

\* the trend as built, after a memory crystal, and two trends low enough
\* for the floor
PriceTrends == {1, 100, 980, K}

\* the quotes whose noise is drawn freely; the later ones take the middle
FreeQuotes == 2

PriceInit ==
  /\ \E stock \in PriceStocks, stores \in PriceStores, day \in PriceDays,
        trend \in PriceTrends :
       g = [NewEngine("normal", FirstDraw[1], FirstDraw[2], FirstDraw[3]) EXCEPT
              !.resources = [r \in Res |-> IF r \in PriceRes THEN stock ELSE @[r]],
              !.storage_count = stores,
              !.day = day,
              !.trend = trend]
  /\ disk = NoSave
  /\ pc = "quote"
  /\ first_turn = TRUE
  /\ last = NoOp
  /\ report = NoReport
  /\ runs = 1
  /\ loads = 0
  /\ presses = 0

\* one call of get_current_price; last.amount is the price returned and
\* last.ret tells whether the window was full before the call. One resource
\* is quoted until its window has slid once
Quote ==
  /\ pc = "quote"
  /\ ~(last.op = "quote" /\ last.ret)
  /\ \E r \in PriceRes :
       /\ \A o \in Res \ {r} : g.price_history[o] = <<>>
       /\ \E noise \in IF Len(g.price_history[r]) < FreeQuotes
                         THEN NoiseDraws ELSE {K} :
            LET q == get_current_price(g, r, noise)
            IN /\ g' = q.e
               /\ last' = [op |-> "quote", key |-> r, amount |-> q.price,
                           ret |-> (Len(g.price_history[r]) = HISTORY_WINDOW)]
  /\ UNCHANGED <<disk, pc, first_turn, report, runs, loads, presses>>

NextPrice == Quote

SpecPrice == PriceInit /\ [][NextPrice]_vars

\* The health desk: the ecosystem of engines whose four biomes are drawn
\* from the set below, ticked and read
HealthDraws == {0, 39400, 59400, 79400, 100 * K}

\* how many ticks the health desk runs
HealthTicks == 2

HealthInit ==
  /\ \E bh \in [{"forest", "rivers", "soil", "air"} -> HealthDraws] :
       g = [NewEngine("normal", FirstDraw[1], FirstDraw[2], FirstDraw[3]) EXCEPT
              !.biome_health = bh]
  /\ disk = NoSave
  /\ pc = "health"
  /\ first_turn = TRUE
  /\ last = NoOp
  /\ report = NoReport
  /\ runs = 1
  /\ loads = 0
  /\ presses = 0

\* update_ecosystem, then get_health_status and get_production_modifier
\* read: last.key is the status, last.amount the modifier
HealthTick ==
  /\ pc = "health"
  /\ presses < HealthTicks
  /\ g' = update_ecosystem(g)
  /\ last' = [op |-> "health", ret |-> TRUE, key |-> get_health_status(g'),
              amount |-> get_production_modifier(g')]
  /\ presses' = presses + 1
  /\ UNCHANGED <<disk, pc, first_turn, report, runs, loads>>

NextHealth == HealthTick

SpecHealth == HealthInit /\ [][NextHealth]_vars

\* the keys of a player who founds a settlement, by the day shown: the
\* hundredfold multiplier, wood and rock, two buildings, a save, a third
\* building, a day of mining, the save loaded. The load brings the day of
\* the save back, so the third building and the mining are played again
SettlePlan == <<"0", "0", "1", "3", "7", "7", "s", "7", "1", "r">>

SettlePlanned(c) == g.day < Len(SettlePlan) /\ SettlePlan[g.day + 1] = c

\* the last day a turn of the settling game may begin on
SettleDays == 10

\* The settling game: the plan played against rain
NextSettle ==
  \/ BeginTurn({"none", "rain"}, SettleDays)
  \/ SettlePlanned("0") /\ CmdToggle
  \/ \E c \in {"1", "3"} : SettlePlanned(c) /\ CmdMine({c})
  \/ SettlePlanned("7") /\ CmdBuild({"les", "kam"} \cup BuildBack)
  \/ SettlePlanned("s") /\ CmdSave
  \/ SettlePlanned("r") /\ CmdLoad
  \/ DayEnd({FALSE}, {FALSE})
  \/ Victory

SpecSettle == Init /\ [][NextSettle]_vars

\* the last day a turn of the idle game may begin on
IdleDays == 1

\* The idle game: a player who types keys the menu does not know, so that
\* the head of the turn runs again and again on the same day and the biomes
\* regenerate
NextIdle ==
  \/ BeginTurn({"none"}, IdleDays)
  \/ CmdUnknown

SpecIdle == Init /\ [][NextIdle]_vars

\* the keys of a player who studies, by the day shown: a difficulty, the
\* hundredfold multiplier, three times wine mined twice and researched into
\* progress, the technology menu, and the quit that saves. Started again,
\* the player opens the technology menu
TechPlan ==
  <<"d", "0", "0", "2", "2", "wine", "2", "2", "wine", "2", "2", "wine",
    "t", "q">>

TechPlanned(c) ==
  IF runs = 1 THEN g.day < Len(TechPlan) /\ TechPlan[g.day + 1] = c
  ELSE c = "t"

\* the last day a turn of the studying game may begin on
TechDays == 15

\* The studying game: the plan played against rain
NextTech ==
  \/ BeginTurn({"none", "rain"}, TechDays)
  \/ TechPlanned("d") /\ CmdDifficulty
  \/ TechPlanned("0") /\ CmdToggle
  \/ TechPlanned("2") /\ CmdMine({"2"})
  \/ TechPlanned("wine") /\ CmdResearch({"wine"})
  \/ TechPlanned("t") /\ CmdTech
  \/ TechPlanned("q") /\ CmdQuit
  \/ DayEnd({FALSE}, {FALSE})
  \/ Victory
  \/ Final
  \/ Restart

SpecTech == Init /\ [][NextTech]_vars

\* The saving game: wood, rain, and the save written on 's', on 'q', on
\* Ctrl-C and by the autosave
NextSave ==
  \/ BeginTurn({"none", "rain"}, SaveDays)
  \/ CmdMine({"1"})
  \/ CmdSave
  \/ CmdQuit
  \/ Interrupt
  \/ DayEnd(BOOLEAN, {FALSE})
  \/ Victory
  \/ Final
  \/ Restart

SpecSave == Init /\ [][NextSave]_vars

----------------------------------------------------------------------------
(* The window: _patch_game_api, PygameView.handle_key and PygameView.run *)

\* tick_once up to its _check_victory call: the engine the call is made on
\* and the save the day's end may have written
tick_day(e, ev, starve, birth, saved) ==
  LET e1 == process_random_events(check_achievements(update_ecosystem(e)), ev)
      e2 == end_of_day([e1 EXCEPT !.day = @ + 1], starve, birth)
  IN [e |-> e2, disk |-> IF e2.day % autosave_every = 0 THEN serialize(e2) ELSE saved]

\* the last day a tick of the window may begin on
UiDays == 2

\* the keys pressed in the window, in the order the event queue hands them
\* over: the hundredfold multiplier, a save, wine mined four times, the day
\* ended twice by hand, the save loaded, wood felled, a sawmill and a
\* storehouse ordered, the window left
UiPlan == <<"0", "0", "s", "2", "2", "2", "2", "n", "n", "r", "1", "F1", "F7", "q">>

NextKey(c) == presses < Len(UiPlan) /\ UiPlan[presses + 1] = c

\* quick_build_map: the building each function key orders
quick_build_map ==
  [F1 |-> "les", F2 |-> "sob", F3 |-> "kam", F4 |-> "pol", F5 |-> "pes",
   F6 |-> "gli", F7 |-> "store"]

\* the event loop of a frame: self.running is True at "keys" and False at
\* "closing"; the keys still in the queue are handled either way
UiKeys == {"keys", "closing"}

\* run_pygame_ui: a fresh engine, no save to load
UiInit ==
  /\ g = NewEngine("normal", FirstDraw[1], FirstDraw[2], FirstDraw[3])
  /\ disk = NoSave
  /\ pc = "keys"
  /\ first_turn = TRUE
  /\ last = NoOp
  /\ report = NoReport
  /\ runs = 1
  /\ loads = 0
  /\ presses = 0

\* what handle_key leaves for every key but 'n' and 'r'
Pressed(e, saved, op) ==
  /\ pc \in UiKeys
  /\ g' = e
  /\ disk' = saved
  /\ last' = op
  /\ presses' = presses + 1
  /\ UNCHANGED <<pc, first_turn, report, runs, loads>>

UiKeyMine ==
  \E c \in DOMAIN InitialMiningActions :
    NextKey(c) /\ Pressed(process_mining(g, c), disk, NoOp)

\* F1..F7: build_quick of the building the key stands for
UiKeyBuild ==
  \E f \in DOMAIN quick_build_map :
    LET b == build_quick(g, quick_build_map[f])
    IN NextKey(f) /\ Pressed(b.e, disk, [NoOp EXCEPT !.op = "build_quick",
                                                     !.key = quick_build_map[f],
                                                     !.ret = b.ret])

UiKeyToggle == NextKey("0") /\ Pressed(toggle_multiplier(g), disk, NoOp)

UiKeySave == NextKey("s") /\ Pressed(g, serialize(g), NoOp)

\* 'r': a KeyError out of deserialize is caught nowhere and ends the program
UiKeyLoad ==
  /\ pc \in UiKeys
  /\ NextKey("r")
  /\ g' = IF Loaded(disk) THEN deserialize(g, load(disk)) ELSE g
  /\ last' = [NoOp EXCEPT !.op = "load", !.ret = Loaded(disk)]
  /\ presses' = presses + 1
  /\ pc' = IF Loaded(disk) /\ deserialize_raises(load(disk)) THEN "crashed" ELSE pc
  /\ UNCHANGED <<disk, first_turn, report, runs, loads>>

\* 'q' or Escape: self.running = False
UiKeyQuit ==
  /\ pc \in UiKeys
  /\ NextKey("q")
  /\ pc' = "closing"
  /\ last' = NoOp
  /\ presses' = presses + 1
  /\ UNCHANGED <<g, disk, first_turn, report, runs, loads>>

\* the QUIT event of the window: self.running = False
UiWindowClosed ==
  /\ pc = "keys"
  /\ pc' = "closing"
  /\ last' = NoOp
  /\ UNCHANGED <<g, disk, first_turn, report, runs, loads, presses>>

\* tick_once, from the 'n' key or from the timer; last.key tells whether
\* the victory was latched already when _check_victory was called
Tick ==
  /\ g.day < UiDays
  /\ \E ev \in {"none"}, starve \in BOOLEAN, birth \in BOOLEAN :
       LET t == tick_day(g, ev, starve, birth, disk)
           cv == check_victory(t.e)
       IN /\ g' = cv.e
          /\ disk' = t.disk
          /\ last' = [NoOp EXCEPT !.op = "check_victory", !.ret = cv.ret,
                                  !.key = IF t.e.victory_achieved THEN "latched" ELSE "open"]
          /\ report' = IF cv.ret THEN [report EXCEPT !.latched = cv.msg] ELSE report

UiKeyTick ==
  /\ pc \in UiKeys
  /\ NextKey("n")
  /\ Tick
  /\ presses' = presses + 1
  /\ UNCHANGED <<pc, first_turn, runs, loads>>

\* the event queue is empty: on to the timer
UiEventsDone ==
  /\ pc \in UiKeys
  /\ pc' = IF pc = "keys" THEN "timer" ELSE "closing_timer"
  /\ last' = NoOp
  /\ UNCHANGED <<g, disk, first_turn, report, runs, loads, presses>>

\* now - self.last_day_ts >= self.sec_per_day
UiTimerTick ==
  /\ pc \in {"timer", "closing_timer"}
  /\ Tick
  /\ pc' = IF pc = "timer" THEN "frame" ELSE "closing_frame"
  /\ UNCHANGED <<first_turn, runs, loads, presses>>

UiTimerIdle ==
  /\ pc \in {"timer", "closing_timer"}
  /\ pc' = IF pc = "timer" THEN "frame" ELSE "closing_frame"
  /\ last' = NoOp
  /\ UNCHANGED <<g, disk, first_turn, report, runs, loads, presses>>

\* while self.running and not self.game.victory_achieved; after the loop the
\* final legacy is printed when the victory is achieved
UiFrameEnd ==
  /\ pc \in {"frame", "closing_frame"}
  /\ pc' = IF pc = "closing_frame" \/ g.victory_achieved THEN "final" ELSE "keys"
  /\ last' = NoOp
  /\ UNCHANGED <<g, disk, first_turn, report, runs, loads, presses>>

NextUi ==
  \/ UiKeyMine
  \/ UiKeyBuild
  \/ UiKeyToggle
  \/ UiKeySave
  \/ UiKeyLoad
  \/ UiKeyQuit
  \/ UiWindowClosed
  \/ UiKeyTick
  \/ UiEventsDone
  \/ UiTimerTick
  \/ UiTimerIdle
  \/ UiFrameEnd
  \/ Final

SpecUi == UiInit /\ [][NextUi]_vars

----------------------------------------------------------------------------
(* The claims *)

\* C1: in every reachable state idle_workers plus the workers assigned over
\* all building types equals population.
C1_WorkerAccounting == g.idle_workers + workers_total(g) = g.population

\* the engines a save may be read into: the running one ('r') and the ones
\* main constructs
RoundTripTargets ==
  {g} \cup {NewEngine(d, ev[1], ev[2], ev[3]) : d \in Difficulties, ev \in EventDraws}

\* C7: for every reachable engine state, deserializing its serialized map
\* into an engine and serializing again gives back the same map, field for
\* field.
C7_RoundTrip ==
  \A t \in RoundTripTargets :
    serialize(deserialize(t, serialize(g))) = serialize(g)

\* a restart has read a save of a settlement that has felled wood, built a
\* sawmill and manned it
C7_Witness ==
  /\ last.op = "restart" /\ last.ret
  /\ serialize(g) = disk
  /\ g.day > 0
  /\ workers_total(g) > 0
  /\ g.characters["elder"] # InitialCharacters["elder"]

\* C5: the research operation on a technology already researched, or
\* discover_secret on a secret already discovered, is a no-op: the engine is
\* left as it was, no cost debited and no effect applied again.
C5_UnlockedIsNoOp ==
  [][(last'.op = "lore" /\ Contains(g.discovered_lore, last'.key)) => g' = g]_vars

\* C6: after a save is deserialized into a freshly constructed engine every
\* technology of researched_techs is marked researched and every secret of
\* discovered_lore is marked discovered.
C6_RestoredMarks ==
  (last.op = "restart" /\ last.ret) =>
    /\ \A i \in 1..Len(g.researched_techs) : g.researched_techs[i] \in g.researched
    /\ \A i \in 1..Len(g.discovered_lore) : g.discovered_lore[i] \in g.discovered

\* C10: the victory category reported for the game is the category of the
\* first condition, in the order technological, economic, ecological,
\* cultural, that held when victory_achieved was latched.
C10_ReportedIsLatched ==
  (pc = "exited" /\ g.victory_achieved) => report.final = report.latched

\* C9: victory_achieved, once set, is never reset by an engine operation
\* of the running game (the load key of the window is one: it overwrites the
\* flag with that of the save).
C9_NeverReset == [][g.victory_achieved => g'.victory_achieved]_vars

\* C2: no resource stock is below 0 in any reachable state.
C2_StocksNotNegative == \A r \in DOMAIN g.resources : g.resources[r] >= 0

\* C4: in every reachable state every stock but the currency is at most
\* storage_capacity.
C4_StocksWithinCapacity ==
  \A r \in DOMAIN g.resources \ {"wine"} : g.resources[r] <= StorageCap(g)

\* C3: after adjust_resource(key, delta) with delta > 0 and key not the
\* currency, the stock of key is at most 50 + 75 * storage_count, whatever
\* it was before; for 'wine' the whole delta is applied.
C3_PositiveDeltaCapped ==
  [][last'.op = "adjust" =>
       /\ (last'.amount > 0 /\ last'.key # "wine") =>
            g'.resources[last'.key] <= (50 + 75 * g'.storage_count) * K
       /\ last'.key = "wine" =>
            g'.resources["wine"] = g.resources["wine"] + last'.amount]_vars

\* a positive delta has been applied to wood that stood above the capacity
\* (after an easy bonus), and the wood stands at the capacity now
C3_Witness ==
  /\ last.op = "adjust" /\ last.key = "wood" /\ last.amount > 0 /\ last.ret
  /\ g.resources["wood"] = (50 + 75 * g.storage_count) * K

\* C8: an execute_trade call that returns False (too little wine for a
\* purchase, too little stock for a sale, or an amount <= 0) leaves
\* resources['wine'] and resources[resource] as they were.
C8_FailedTradeLeavesStocks ==
  [][(last'.op \in {"buy", "sell"} /\ last'.key \in Res /\ ~last'.ret) =>
       /\ g'.resources["wine"] = g.resources["wine"]
       /\ g'.resources[last'.key] = g.resources[last'.key]]_vars

\* a purchase of a positive amount has failed for want of wine, after the
\* prices were quoted
C8_Witness ==
  /\ last.op = "buy" /\ last.key \in Res /\ ~last.ret /\ last.amount > 0
  /\ Len(g.price_history[last.key]) > 1

\* C11: the economic condition of _check_victory gives the same answer
\* for the engine as it is and for the same engine with any other amount of
\* wine (none, or the amount a new game starts with)
C11_EconomicIgnoresWine ==
  \A w \in {0, InitialResources["wine"]} :
    victory_condition([g EXCEPT !.resources["wine"] = w], "ECONOMIC")
      = victory_condition(g, "ECONOMIC")

\* C12: after any number of ecosystem ticks and random events, with any
\* buildings, workers and eco-industry penalty, every biome health value
\* is within [0, 100]
C12_BiomeHealthBounded ==
  \A b \in Biomes : g.biome_health[b] >= 0 /\ g.biome_health[b] <= 100 * K

\* a tick with a sawmill at work and no fire that day left the forest at 0:
\* the impact outweighed the regeneration and the clamp held the value
C12_Witness ==
  /\ last.op = "random_event"
  /\ last.key = "none"
  /\ g.biome_health["forest"] = 0
  /\ Get(g.buildings, "les") > 0
  /\ workers_total(g) > 0

\* C13: every character's relationship score toward the player is within
\* [-100, 100] in every reachable state
C13_RelationshipBounded ==
  \A n \in CharNames : g.characters[n].rel >= -100 /\ g.characters[n].rel <= 100

\* what a build of type b is required to do to the engine e, giving f, when
\* the cost is the base cost scaled by the count c: nothing when a scaled
\* cost exceeds its stock, else the scaled cost debited and one more of b
BuildOutcome(e, f, b, c) ==
  LET cost == [r \in DOMAIN building_costs[b] |->
                 Mul(building_costs[b][r], K + 100 * c)]
      others == \A t \in BuildingTypes \ {b} : Get(f.buildings, t) = Get(e.buildings, t)
  IN IF \E r \in DOMAIN cost : cost[r] > e.resources[r]
     THEN /\ f.resources = e.resources
          /\ others
          /\ Get(f.buildings, b) = Get(e.buildings, b)
          /\ f.storage_count = e.storage_count
     ELSE /\ \A r \in Res :
               f.resources[r] = e.resources[r] - (IF r \in DOMAIN cost THEN cost[r] ELSE 0)
          /\ others
          /\ IF b = "store"
             THEN f.storage_count = e.storage_count + 1
             ELSE /\ Get(f.buildings, b) = Get(e.buildings, b) + 1
                  /\ f.storage_count = e.storage_count

\* the types a build may name
BuildKeys == {"les", "pol", "store"}

\* C14 (as amended): a build of a production building with prior count c
\* costs base * (1 + 0.1 * c) and a store always costs its base cost; a build
\* that cannot be paid changes no stock, no building count and no
\* storage_count, a build that can be paid debits exactly that cost and adds
\* one to the count of its type (storage_count for a store); the same for
\* process_building and for build_quick; a menu left without a building
\* chosen changes none of them
C14_BuildCost ==
  [][/\ (last'.op = "build" /\ last'.key \in DOMAIN building_costs) =>
          BuildOutcome(g, g', last'.key,
                       IF last'.key = "store" THEN 0 ELSE Get(g.buildings, last'.key))
     /\ (last'.op = "build" /\ last'.key \in BuildBack) =>
          /\ g'.resources = g.resources
          /\ g'.buildings = g.buildings
          /\ g'.storage_count = g.storage_count
     /\ \A b \in BuildKeys :
          BuildOutcome(g, build_quick(g, b).e, b,
                       IF b = "store" THEN 0 ELSE Get(g.buildings, b))]_vars

\* a second sawmill was built, at the scaled cost
C14_Witness ==
  /\ last.op = "build"
  /\ last.ret
  /\ last.key = "les"
  /\ Get(g.buildings, "les") >= 2

\* C14 (as stated): the prior count of a store is storage_count, so that a
\* store as well costs base * (1 + 0.1 * c)
C14_BuildCostByCount ==
  [][(last'.op = "build" /\ last'.key \in DOMAIN building_costs) =>
       BuildOutcome(g, g', last'.key,
                    IF last'.key = "store" THEN g.storage_count
                    ELSE Get(g.buildings, last'.key))]_vars

\* what the recipe k asks of each of its inputs in the engine e
CraftNeeds(e, k) ==
  [j \in 1..Len(recipe_inputs(k)) |-> Mul(recipe_inputs(k)[j][2], craft_mult(e))]

\* C15: crafting is atomic: when an input of the chosen recipe is not
\* affordable at its scaled cost, no stock and no research is touched; when
\* all are, every input is debited by its scaled amount and then the outputs
\* are credited (up to the storage capacity)
C15_CraftAtomic ==
  [][(last'.op = "craft" /\ last'.key # "") =>
       LET k == last'.key
           ins == recipe_inputs(k)
           outs == recipe_outputs(k)
           need == CraftNeeds(g, k)
           debit(r) == IF \E j \in 1..Len(ins) : ins[j][1] = r
                       THEN need[CHOOSE j \in 1..Len(ins) : ins[j][1] = r]
                       ELSE 0
       IN IF \E j \in 1..Len(ins) : craft_stock(g, ins[j][1]) < need[j]
          THEN /\ ~last'.ret
               /\ g'.resources = g.resources
               /\ g'.research_progress = g.research_progress
          ELSE /\ last'.ret
               /\ g'.research_progress = g.research_progress - debit("research")
               /\ \A r \in Res :
                    g'.resources[r] =
                      IF r \in DOMAIN outs
                      THEN Min(g.resources[r] - debit(r) + Mul(outs[r], craft_mult(g)),
                               StorageCap(g))
                      ELSE g.resources[r] - debit(r)]_vars

\* steel was asked for at the tenfold multiplier with enough coal and too
\* little iron: the first input affordable, the second not
C15_Witness ==
  /\ last.op = "craft"
  /\ last.key = "steel"
  /\ ~last.ret
  /\ g.resources["coal"] >= 10 * K
  /\ g.resources["iron"] > 0
  /\ g.resources["iron"] < 10 * K
  /\ current_multiplier(g) = 10

----------------------------------------------------------------------------
(* C16: the snapshots *)

\* the operations that write a snapshot from the prompt
SnapshotOps == {"save", "quit", "interrupt"}

\* C16: a snapshot written on 's', on 'q' or on Ctrl-C is the engine as the
\* last completed day left it: it holds nothing of the ecosystem tick, the
\* achievements or the random event of a day whose end of day has not run
C16_SnapshotAtDayEnd ==
  (last.op \in SnapshotOps) => (disk = serialize(g) /\ ~last.ret)

----------------------------------------------------------------------------
(* C17: a damaged save *)

\* C17: loading a save never raises out of load or deserialize, whatever
\* the file holds: the program never ends on an exception of the restore
C17_LoadNeverRaises == pc # "crashed"

----------------------------------------------------------------------------
(* C18: a trade of nothing *)

\* C18: execute_trade with an amount of zero or less returns failure and
\* leaves the whole engine as it was, the price history of the market
\* included
C18_InvalidTradeChangesNothing ==
  \A r \in {"wood", "wine"}, a \in {a \in TradeAmounts : a <= 0},
     buying \in BOOLEAN, noise \in NoiseDraws :
    LET t == execute_trade(g, r, a, buying, noise)
    IN ~t.ret /\ t.e = g

----------------------------------------------------------------------------
(* C19: the floor of the price *)

\* C19: whatever the stock, the capacity, the day, the trend and the noise,
\* get_current_price returns 0.1 or more, and every sample of the price
\* history, before and after the call, is 0.1 or more
C19_PriceFloor ==
  /\ \A r \in Res : \A i \in 1..Len(g.price_history[r]) : g.price_history[r][i] >= 100
  /\ \A r \in Res, noise \in NoiseDraws :
       LET q == get_current_price(g, r, noise)
       IN /\ q.price >= 100
          /\ \A i \in 1..Len(q.e.price_history[r]) : q.e.price_history[r][i] >= 100

\* the floor at work: the window of a resource full of samples of 0.1, slid
\* once, and the price returned 0.1
C19_Witness ==
  /\ last.op = "quote" /\ last.ret
  /\ last.amount = 100
  /\ Len(g.price_history[last.key]) = HISTORY_WINDOW
  /\ \A i \in 1..HISTORY_WINDOW : g.price_history[last.key][i] = 100

----------------------------------------------------------------------------
(* C20: a fed day *)

\* C20: when the end of the day finds food for every settler, the food
\* falls by exactly population * pop_food_per_day, stays at 0 or above, and
\* the hunger takes no settler
C20_FedDay ==
  [][(last'.op = "end_of_day" /\ g.resources["food"] >= g.population * pop_food_per_day)
       => /\ g'.resources["food"] = g.resources["food"] - g.population * pop_food_per_day
          /\ g'.resources["food"] >= 0
          /\ g'.population >= g.population]_vars

\* a day ended with food for all of more than one settler, the last such
\* day: what is left does not feed them again
C20_Witness ==
  /\ last.op = "end_of_day" /\ last.ret
  /\ last.amount > pop_food_per_day
  /\ g.resources["food"] >= 0
  /\ g.resources["food"] < g.population * pop_food_per_day

----------------------------------------------------------------------------
(* C21: the happiness of a fed day *)

\* C21: when the end of the day finds food for every settler and the
\* happiness below 100, the happiness after _end_of_day is strictly above
\* the happiness before it
C21_FedDayRaisesHappiness ==
  [][(/\ last'.op = "end_of_day"
      /\ g.resources["food"] >= g.population * pop_food_per_day
      /\ g.happiness < 100 * K)
       => g'.happiness > g.happiness]_vars

----------------------------------------------------------------------------
(* C22: the tiers of the ecosystem *)

\* the modifier the spec gives each status
TierModifier(status) ==
  CASE status = "HEALTHY" -> 1200
    [] status = "STABLE" -> K
    [] status = "DEGRADED" -> 800
    [] status = "CRITICAL" -> 600

\* C22: get_production_modifier is 1.2 from an overall health of 80, 1.0
\* from 60, 0.8 from 40 and 0.6 below, and it is always the modifier of the
\* tier get_health_status reports
C22_ModifierTiers ==
  LET h == get_overall_health(g)
      m == get_production_modifier(g)
  IN /\ m = (IF h >= 80 * K THEN 1200 ELSE IF h >= 60 * K THEN K
             ELSE IF h >= 40 * K THEN 800 ELSE 600)
     /\ m = TierModifier(get_health_status(g))
     /\ last.op = "health" => last.amount = TierModifier(last.key)

\* a tick that brought the overall health to exactly 80
C22_Witness ==
  /\ last.op = "health"
  /\ get_overall_health(g) = 80 * K
  /\ last.key = "HEALTHY"
  /\ last.amount = 1200

----------------------------------------------------------------------------
(* C23: an achievement is unlocked once *)

\* C23: within one run of the engine an unlocked achievement stays
\* unlocked, and the head of a turn applies the reward of an achievement
\* only in the step that unlocks it: once it is unlocked its reward is not
\* applied again
C23_UnlockedOnce ==
  [][/\ runs' = runs => g.unlocked \subseteq g'.unlocked
     /\ last'.op = "random_event" =>
          /\ "first_settlement" \in g.unlocked =>
               g'.resources["builder_materials"] = g.resources["builder_materials"]
          /\ "master_crafter" \in g.unlocked =>
               g'.craft_speed_multiplier = g.craft_speed_multiplier
          /\ "tech_pioneer" \in g.unlocked =>
               g'.research_bonus = g.research_bonus]_vars

\* the first settlement unlocked, the save of before loaded, the third
\* building built again, and the head of the next turn run on it
C23_Witness ==
  /\ last.op = "random_event"
  /\ loads = 1
  /\ "first_settlement" \in g.unlocked
  /\ SumAll(g.buildings) >= 3
  /\ g.resources["builder_materials"] = InitialResources["builder_materials"]

----------------------------------------------------------------------------
(* C24: the reward of an achievement *)

\* C24: when the head of a turn unlocks an achievement, the unlock changes
\* the engine beyond the unlocked flag: a stock, a multiplier or the health
\* of a biome is raised by the reward
C24_UnlockAppliesReward ==
  pc = "top" =>
    LET x == update_ecosystem(display_status(g))
        e == check_achievements(x)
    IN e.unlocked # x.unlocked => [e EXCEPT !.unlocked = x.unlocked] # x

----------------------------------------------------------------------------
(* C25: the technology tree *)

\* C25: every technology of researched_techs has its required technologies
\* in researched_techs, and the technology menu offers a technology only
\* when it is not researched, its required technologies are researched,
\* its costs are in stock and the research progress covers its research
C25_TechOffer ==
  /\ \A i \in 1..Len(g.researched_techs) :
       \A req \in required_techs[g.researched_techs[i]] :
         Contains(g.researched_techs, req)
  /\ \A j \in 1..Len(available_techs(g)) :
       LET tid == available_techs(g)[j]
       IN /\ ~Contains(g.researched_techs, tid)
          /\ \A req \in required_techs[tid] : Contains(g.researched_techs, req)
          /\ Affordable(g, tech_cost[tid])
          /\ g.research_progress >= tech_research[tid]

----------------------------------------------------------------------------
(* C26: the phases of a day *)

\* C26: an iteration that ran the ecosystem tick, the achievements and the
\* random event and read a command goes on to the end of the day, whatever
\* the command was, unless the player leaves: from the prompt the loop never
\* returns to its top without _end_of_day
C26_DayCompletes ==
  [][(pc \in Prompts /\ pc' \notin Prompts)
       => pc' \in {"dayend", "final", "exited", "crashed"}]_vars

----------------------------------------------------------------------------
(* C27: the pollution *)

\* workerLoadFactor of the spec: 0.75 + 0.05 * min(assigned workers, 10),
\* without the eco-industry penalty
WorkerLoadFactor(e) == 750 + 50 * Min(workers_total(e), 10)

\* C27: after the ecosystem tick of a turn the pollution is
\* min(100, 0.25 * buildings * workerLoadFactor): the eco-industry penalty
\* is no factor of it
C27_PollutionUnscaled ==
  (pc = "input" /\ last.op = "random_event")
    => g.pollution_level =
         Min(100 * K, Mul(250 * SumAll(g.buildings), WorkerLoadFactor(g)))

----------------------------------------------------------------------------
(* C28: the rolling window of the price history *)

\* C28: every history holds at most 20 samples, and a call of
\* get_current_price for a resource leaves its history equal to the old one
\* with the instantaneous price of the call appended, cut to its last 20
\* samples (the oldest sample is the one that leaves); no other history moves
C28_HistoryWindow ==
  [][\A r \in Res :
       LET h == g.price_history[r]
           h2 == g'.price_history[r]
       IN /\ Len(h2) <= HISTORY_WINDOW
          /\ IF last'.op = "quote" /\ last'.key = r
             THEN \E noise \in NoiseDraws :
                    h2 = LastN(Append(h, InstantPrice(g, r, noise)), HISTORY_WINDOW)
             ELSE h2 = h]_vars

\* a full window that has slid: twenty samples, the call found the window
\* full, and the sample that was second is now the oldest and differs from
\* the newest
C28_Witness ==
  /\ last.op = "quote" /\ last.ret
  /\ Len(g.price_history[last.key]) = HISTORY_WINDOW
  /\ g.price_history[last.key][1] # g.price_history[last.key][HISTORY_WINDOW]

----------------------------------------------------------------------------
(* C29: the event windows *)

\* allah_event, globu_event and event_duration of an engine
Windows(e) == <<e.allah_event, e.globu_event, e.event_duration>>

\* the three windows a save file holds
SavedWindows(file) == <<file.events.allah, file.events.globu, file.events.dur>>

\* C29: a deserialize that returns (main at the start of a run, 'r') leaves
\* the engine's windows equal to the saved ones, whatever the constructor
\* drew; a start without a usable save keeps what the constructor drew;
\* every other step leaves the three windows as they were. A deserialize
\* that raises ends the program, and no engine is left to look at.
C29_WindowsFixed ==
  [][IF last'.op \in {"restart", "load"} /\ Loaded(disk)
     THEN pc' # "crashed" => Windows(g') = SavedWindows(load(disk))
     ELSE last'.op = "restart" \/ Windows(g') = Windows(g)]_vars

\* a run has begun with a save loaded whose windows are not those the
\* constructor of that run drew
C29_Witness ==
  /\ last.op = "restart" /\ last.ret
  /\ pc = "top"
  /\ last.amount # g.allah_event
  /\ Windows(g) = SavedWindows(load(disk))

----------------------------------------------------------------------------
(* C30: the floors of the food production multiplier *)

\* the keys of a player who studies and then saves, by the day shown: a
\* difficulty, the hundredfold multiplier, three times wine mined twice and
\* researched into progress, food, the save, two visits ("x") to the
\* technology menu or to the lore menu in either order, and the load of the
\* save. After the load the day shown is the saved one and the two visits
\* come again
SeedPlan ==
  <<"d", "0", "0", "2", "2", "wine", "2", "2", "wine", "2", "2", "wine",
    "4", "s", "x", "x", "r">>

SeedPlanned(c) == g.day < Len(SeedPlan) /\ SeedPlan[g.day + 1] = c

\* the last day a turn of the sowing game may begin on
SeedDays == 17

\* The sowing game: the plan played without random events
NextSeed ==
  \/ BeginTurn({"none"}, SeedDays)
  \/ SeedPlanned("d") /\ CmdDifficulty
  \/ SeedPlanned("0") /\ CmdToggle
  \/ SeedPlanned("2") /\ CmdMine({"2"})
  \/ SeedPlanned("4") /\ CmdMine({"4"})
  \/ SeedPlanned("wine") /\ CmdResearch({"wine"})
  \/ SeedPlanned("s") /\ CmdSave
  \/ SeedPlanned("x") /\ CmdTech
  \/ SeedPlanned("x") /\ CmdLore({"seed_of_prosperity"})
  \/ SeedPlanned("r") /\ CmdLoad
  \/ DayEnd({FALSE}, {FALSE})
  \/ Victory

SpecSeed == Init /\ [][NextSeed]_vars

\* C30: no step lowers food_production_multiplier, and an engine whose
\* basic_agriculture is researched and whose seed_of_prosperity is discovered
\* has the multiplier at 2.0
C30_FoodFloors ==
  [][/\ g'.food_production_multiplier >= g.food_production_multiplier
     /\ ("basic_agriculture" \in g'.researched
           /\ "seed_of_prosperity" \in g'.discovered)
          => g'.food_production_multiplier = 2 * K]_vars

----------------------------------------------------------------------------
(* C31: the biomes of a settlement without industry *)

\* the head of the loop has run: the turn has moved from the top of the
\* while loop to the prompt (in the idle game only BeginTurn does that)
LoopHead == pc = "top" /\ pc' = "input"

\* The idle game played on: a loop at its top runs its head, and the
\* player goes on typing keys, so the ecosystem goes on ticking
SpecIdleFair == SpecIdle /\ WF_pc(LoopHead) /\ WF_vars(CmdUnknown)

\* every biome between 90 and 90.6
Regrown(e) == \A b \in Biomes : e.biome_health[b] >= 90 * K /\ e.biome_health[b] <= 90600

\* C31: without les, kam, pes and gli and without a forest fire no step
\* lowers a biome; a band of [90, 90.6] once entered is not left; and when
\* the ticks go on, every biome ends in that band for good, with the overall
\* health above the 85 of the ecological victory
C31_Regrows ==
  /\ [][/\ \A b \in Biomes : g'.biome_health[b] >= g.biome_health[b]
        /\ Regrown(g) => Regrown(g')]_vars
  /\ <>[](Regrown(g) /\ get_overall_health(g) > 85 * K)

\* a tick has just run on regrown biomes: rivers, which began at 0, have
\* reached 90, and the overall health is above 85
C31_Witness ==
  /\ last.op = "random_event"
  /\ SumAll(g.buildings) = 0
  /\ Regrown(g)
  /\ g.biome_health["rivers"] >= 90 * K
  /\ get_overall_health(g) > 85 * K

----------------------------------------------------------------------------
(* C32: the workers and the population *)

\* C32: idle_workers is 0 or more, and no building type has fewer than 0 or
\* more than population workers
C32_WorkersWithinPopulation ==
  /\ g.idle_workers >= 0
  /\ \A b \in DOMAIN g.workers : g.workers[b] >= 0 /\ g.workers[b] <= g.population

----------------------------------------------------------------------------
(* C33: the range of happiness *)

\* C33: happiness is between 0 and 100 in every state
C33_HappinessBounds == g.happiness >= 0 /\ g.happiness <= 100 * K

----------------------------------------------------------------------------
(* C34: the last inhabitant *)

\* the keys of a player who lets the settlement starve, by the day shown:
\* 'd' 'easy' on five days (happiness 99.75, food 121), all the food
\* researched away, and then '0' day after day
HungerPlan == <<"d", "d", "d", "d", "d", "food">>

HungerPlanned(c) ==
  IF g.day < Len(HungerPlan) THEN HungerPlan[g.day + 1] = c ELSE c = "0"

\* the last day a turn of the hungry game may begin on
HungerDays == 15

\* The hungry game: the plan played without random events, every hungry
\* day with and without a death, every happy day with and without a birth
NextHunger ==
  \/ BeginTurn({"none"}, HungerDays)
  \/ HungerPlanned("d") /\ CmdDifficulty /\ g'.difficulty = "easy"
  \/ HungerPlanned("food") /\ CmdResearch({"food"})
  \/ HungerPlanned("0") /\ CmdToggle
  \/ DayEnd(BOOLEAN, BOOLEAN)
  \/ Victory

SpecHunger == Init /\ [][NextHunger]_vars

\* C34: the population is 1 or more; a step that is not the end of a day
\* leaves it alone, and the end of a day changes it by one at most, taking
\* a settler only on a hungry day
C34_PopulationSurvives ==
  [][/\ g.population >= 1
     /\ g'.population >= 1
     /\ IF last'.op = "end_of_day"
        THEN /\ g'.population \in (g.population - 1)..(g.population + 1)
             /\ last'.ret => g'.population >= g.population
        ELSE g'.population = g.population]_vars

\* a hungry end of the day that found one settler (the food needed was that
\* of one) and left one
C34_Witness ==
  /\ last.op = "end_of_day" /\ ~last.ret
  /\ last.amount = pop_food_per_day
  /\ g.population = 1

----------------------------------------------------------------------------
(* C35: the list of discovered secrets *)

\* C35: no secret id stands twice in discovered_lore
C35_LoreDistinct ==
  \A i, j \in 1..Len(g.discovered_lore) :
    g.discovered_lore[i] = g.discovered_lore[j] => i = j

----------------------------------------------------------------------------
(* C36: the sources of craft speed *)

\* The workshop game: an engine whose constructor drew the late event
\* windows; the multiplier toggled to 100, wine mined and researched away
\* five times (progress 32.7, past the 30 of forge_of_souls), steel and coal
\* for the forge bought on the market, and then days ("x") on which the
\* player discovers forge_of_souls, buys ten instruments from the miner or
\* opens the technology menu, as the player likes; master_crafter is
\* unlocked at the head of the turn that finds twenty instruments
SpeedPlan ==
  <<"0", "0",
    "2", "2", "9", "2", "2", "9", "2", "2", "9", "2", "2", "9", "2", "2", "9",
    "2", "2", "steel", "coal", "2", "2",
    "x", "x", "2", "2", "x", "x", "2">>

SpeedPlanned(c) == g.day < Len(SpeedPlan) /\ SpeedPlan[g.day + 1] = c

\* the last day a turn of that game may begin on
SpeedDays == 30

\* what the forge costs, bought in one purchase each
SpeedBuy == [steel |-> 10 * K, coal |-> 20 * K]

\* the instruments of one purchase from the miner
SpeedLot == 10 * K

\* the draws of the noise of the menus of that game: the middle every time
SpeedNoise == <<K>>

SpeedInit ==
  /\ g = NewEngine("normal", 60, 180, 60)
  /\ disk = NoSave
  /\ pc = "top"
  /\ first_turn = TRUE
  /\ last = NoOp
  /\ report = NoReport
  /\ runs = 1
  /\ loads = 0
  /\ presses = 0

NextSpeed ==
  \/ BeginTurn({"none"}, SpeedDays)
  \/ SpeedPlanned("0") /\ CmdToggle
  \/ SpeedPlanned("2") /\ CmdMine({"2"})
  \/ SpeedPlanned("9") /\ CmdResearch({"wine"})
  \/ \E r \in DOMAIN SpeedBuy : SpeedPlanned(r) /\ BuyListed({SpeedNoise})
  \/ \E r \in DOMAIN SpeedBuy : SpeedPlanned(r) /\ BuyTyped({r}, {SpeedBuy[r]}, NoiseDraws)
  \/ SpeedPlanned("x") /\ CmdLore({"forge_of_souls"})
  \/ SpeedPlanned("x") /\ CharOffers({"miner"}, {SpeedNoise})
  \/ SpeedPlanned("x") /\ CharTyped({2}, {SpeedLot}, NoiseDraws)
  \/ SpeedPlanned("x") /\ CmdTech
  \/ DayEnd({FALSE}, {FALSE})
  \/ Victory

SpecSpeed == SpeedInit /\ [][NextSpeed]_vars

\* master_crafter is unlocked and forge_of_souls discovered
CraftedAndForged(e) ==
  /\ "master_crafter" \in e.unlocked
  /\ "forge_of_souls" \in e.discovered

----------------------------------------------------------------------------
(* The village simulation of main.py: Farm, Citizen, Village *)

VISIBLE_LIMIT == 300

\* Farm.worker is None
Nobody == -1

\* a Citizen as Village.spawn_citizen builds it: the number of its name,
\* no farm (0 is None)
NewCitizen(id) == [name |-> id, role |-> "collector", farm |-> 0, alive |-> TRUE]

\* a Farm as built: farms are numbered by their place in Village.farms,
\* and worker is the name of a citizen or Nobody
NewFarm(worker) == [grow_stage |-> 0, food_per_day |-> 2, worker |-> worker]

Farm_tick(f) ==
  IF f.grow_stage < 3
  THEN [f EXCEPT !.grow_stage = @ + 1, !.food_per_day = 2 * (f.grow_stage + 1)]
  ELSE f

\* Village.spawn_citizen called n times one after another: the list takes
\* the first of the new citizens, up to VISIBLE_LIMIT, and every call
\* counts in next_id and total_population
spawn_citizen(v, n) ==
  LET room == Max(0, VISIBLE_LIMIT - Len(v.citizens))
      shown == Min(n, room)
  IN [v EXCEPT !.citizens = @ \o [j \in 1..shown |-> NewCitizen(v.next_id + j - 1)],
               !.next_id = @ + n,
               !.total_population = @ + n]

\* Village.__init__ with a position that has `tiles` free plains tiles
\* within MAX_RADIUS
NewVillage(tiles) ==
  \* add_starting_population: six spawns, then the population is the list
  LET v == spawn_citizen([food |-> 50, citizens |-> <<>>, total_population |-> 0,
                       day |-> 0, next_id |-> 0, farms |-> <<>>, tiles |-> tiles], 6)
  IN [v EXCEPT !.total_population = Len(v.citizens)]

\* the citizen a reference points to is alive: dead citizens leave the list
\* with alive = False
WorkerAlive(v, name) ==
  \E i \in 1..Len(v.citizens) : v.citizens[i].name = name /\ v.citizens[i].alive

\* the farms grow, and every farm with a living worker yields its food
FarmsYield(v) ==
  LET farms == [i \in 1..Len(v.farms) |-> Farm_tick(v.farms[i])]
      worked == {i \in 1..Len(farms) :
                   farms[i].worker # Nobody /\ WorkerAlive(v, farms[i].worker)}
      yields == {farms[i].food_per_day : i \in worked}
      gain == [y \in yields |->
                 y * Cardinality({i \in worked : farms[i].food_per_day = y})]
  IN [v EXCEPT !.farms = farms, !.food = @ + SumAll(gain)]

\* the citizens eat; on a hungry day the population falls to the food, the
\* visible citizens beyond it are popped from the end of the list, and each
\* of them is taken off its farm
Eat(v) ==
  IF v.total_population <= 0 THEN v
  ELSE IF v.food >= v.total_population THEN [v EXCEPT !.food = @ - v.total_population]
  ELSE LET left == v.food
           keep == Min(Len(v.citizens), left)
           gone == {v.citizens[i].name : i \in (keep + 1)..Len(v.citizens)}
       IN [v EXCEPT !.total_population = left,
                    !.food = 0,
                    !.citizens = SubSeq(@, 1, keep),
                    !.farms = [i \in 1..Len(@) |->
                                 IF @[i].worker \in gone
                                 THEN [@[i] EXCEPT !.worker = Nobody] ELSE @[i]]]

\* workers: the places in the list of the living citizens who are no
\* farmworkers
FreeHands(v) ==
  {i \in 1..Len(v.citizens) : v.citizens[i].alive /\ v.citizens[i].role # "farmworker"}

\* workers.pop() takes the last of the list: the k-th pop of a tick takes
\* the free citizen with k - 1 free citizens after it
PopOrder(v, i) == Cardinality({j \in FreeHands(v) : j >= i})

\* a hiring that leaves the role of the worker as it was
Employ_unmarked(v, posts) ==
  LET hands == FreeHands(v)
      turn == [f \in posts |-> Cardinality({h \in posts : h <= f})]
      pop == [i \in hands |-> PopOrder(v, i)]
      hired == {i \in hands : pop[i] <= Cardinality(posts)}
      staffed == {f \in posts : turn[f] <= Cardinality(hands)}
  IN [v EXCEPT !.citizens = [i \in 1..Len(@) |->
                               IF i \in hired
                               THEN [@[i] EXCEPT !.farm = CHOOSE f \in posts : turn[f] = pop[i]]
                               ELSE @[i]],
               !.farms = [f \in 1..Len(@) |->
                            IF f \in staffed
                            THEN [@[f] EXCEPT !.worker =
                                    v.citizens[CHOOSE i \in hands : pop[i] = turn[f]].name]
                            ELSE @[f]]]

\* the farms in `posts`, in the order of Village.farms, take one worker
\* each from the end of the workers while there are workers: worker.role,
\* worker.farm and farm.worker are set together
Employ(v, posts) ==
  LET hands == FreeHands(v)
      turn == [f \in posts |-> Cardinality({h \in posts : h <= f})]
      pop == [i \in hands |-> PopOrder(v, i)]
      hired == {i \in hands : pop[i] <= Cardinality(posts)}
      staffed == {f \in posts : turn[f] <= Cardinality(hands)}
  IN [v EXCEPT !.citizens = [i \in 1..Len(@) |->
                               IF i \in hired
                               THEN [@[i] EXCEPT !.role = "farmworker",
                                                 !.farm = CHOOSE f \in posts : turn[f] = pop[i]]
                               ELSE @[i]],
               !.farms = [f \in 1..Len(@) |->
                            IF f \in staffed
                            THEN [@[f] EXCEPT !.worker =
                                    v.citizens[CHOOSE i \in hands : pop[i] = turn[f]].name]
                            ELSE @[f]]]

\* for farm in self.farms: a farm without a living worker takes one
Restaff(v) ==
  Employ(v, {f \in 1..Len(v.farms) :
               v.farms[f].worker = Nobody \/ ~WorkerAlive(v, v.farms[f].worker)})

\* while len(self.farms) < self.total_population and workers: a farm on a
\* free tile, with a worker; the loop ends with the farms, the workers or
\* the free tiles
Found(v) ==
  LET k == Min(Min(Max(0, v.total_population - Len(v.farms)),
                   Cardinality(FreeHands(v))), v.tiles)
      built == [v EXCEPT !.farms = @ \o [j \in 1..k |-> NewFarm(Nobody)],
                         !.tiles = @ - k]
  IN Employ(built, (Len(v.farms) + 1)..(Len(v.farms) + k))

max_new(v) == Max(1, v.total_population \div 2)

\* a growth that stops only below 10 food
Grow_all(v, most) ==
  LET turns == IF v.food >= 10 THEN (v.food - 5) \div 5 ELSE 0
  IN spawn_citizen([v EXCEPT !.food = @ - 5 * turns], turns)

\* while self.food >= 10 and spawned < max_new: every turn of the loop
\* takes 5 food and spawns a citizen
Grow(v, most) ==
  LET turns == IF v.food >= 10 THEN Min(most, (v.food - 5) \div 5) ELSE 0
  IN spawn_citizen([v EXCEPT !.food = @ - 5 * turns], turns)

\* the village when the growth of the day begins
BeforeGrowth(v) == Found(Restaff(Eat(FarmsYield([v EXCEPT !.day = @ + 1]))))

Village_tick(v) == LET b == BeforeGrowth(v) IN Grow(b, max_new(b))

\* the free plains tiles around the position a Village is built at: none
\* at all, a few, and the 300 of the position main.py builds its village at
VillageTiles == {0, 1, 2, 3, 4, 300}

VillageDays == 24

VillageInit ==
  /\ \E tiles \in VillageTiles : g = NewVillage(tiles)
  /\ disk = NoSave
  /\ pc = "village"
  /\ first_turn = FALSE
  /\ last = NoOp
  /\ report = NoReport
  /\ runs = 1
  /\ loads = 0
  /\ presses = 0

\* update() calls village.tick() when the timer has run; last.ret tells a
\* hungry day, last.amount the citizens the tick spawned
VillageTick ==
  /\ pc = "village"
  /\ g.day < VillageDays
  /\ g' = Village_tick(g)
  /\ last' = [NoOp EXCEPT !.op = "tick",
                          !.ret = (FarmsYield(g).food < g.total_population),
                          !.amount = g'.next_id - g.next_id]
  /\ UNCHANGED <<disk, pc, first_turn, report, runs, loads, presses>>

NextVillage == VillageTick

SpecVillage == VillageInit /\ [][NextVillage]_vars

\* the names of the citizens in the list
Visible(v) == {v.citizens[i].name : i \in 1..Len(v.citizens)}

\* C37: after construction and after every Village.tick, every farm with a
\* worker has a living citizen of the list as its worker, that citizen has
\* the role farmworker and its farm is this farm; no citizen is the worker
\* of two farms; and a citizen a tick removed by starvation is the worker
\* of no farm after that tick.
C37_FarmWorkerPairing ==
  /\ [](\A f \in 1..Len(g.farms) :
          g.farms[f].worker # Nobody =>
            /\ \E i \in 1..Len(g.citizens) :
                 /\ g.citizens[i].name = g.farms[f].worker
                 /\ g.citizens[i].alive
                 /\ g.citizens[i].role = "farmworker"
                 /\ g.citizens[i].farm = f
            /\ \A h \in 1..Len(g.farms) :
                 g.farms[h].worker = g.farms[f].worker => h = f)
  /\ [][\A c \in Visible(g) \ Visible(g') :
          \A f \in 1..Len(g'.farms) : g'.farms[f].worker # c]_vars

\* a hungry tick took citizens from the list of a village with a farm, and
\* the farm has its worker
C37_Witness ==
  /\ last.op = "tick" /\ last.ret
  /\ Len(g.citizens) = g.total_population
  /\ g.next_id > g.total_population
  /\ \E f \in 1..Len(g.farms) : g.farms[f].worker \in Visible(g)

\* C38: after construction and after every Village.tick, food >= 0,
\* total_population >= 0 and the citizens of the list are at most
\* total_population; a tick spawns at most max(1, total_population // 2)
\* citizens, with the population the eating left, each spawn costs 5 food
\* and is made with 10 food or more in the stock, and the tick stops
\* spawning only at the limit or below 10 food.
C38_VillageBounds ==
  /\ [](/\ g.food >= 0
        /\ g.total_population >= 0
        /\ Len(g.citizens) <= g.total_population
        /\ Len(g.citizens) <= VISIBLE_LIMIT)
  /\ [][LET b == BeforeGrowth(g)
            spawned == g'.next_id - g.next_id
        IN /\ spawned >= 0
           /\ spawned <= max_new(b)
           /\ spawned <= Max(1, g'.total_population \div 2)
           /\ g'.total_population = b.total_population + spawned
           /\ g'.food = b.food - 5 * spawned
           /\ spawned > 0 => g'.food >= 5
           /\ spawned < max_new(b) => g'.food < 10]_vars

\* a tick spawned more than one citizen, ten food could not pay for
\* another, and the village is larger than the full list of its citizens
C38_Witness ==
  /\ last.op = "tick"
  /\ last.amount > 1
  /\ g.food < 10
  /\ Len(g.citizens) = VISIBLE_LIMIT
  /\ g.total_population > VISIBLE_LIMIT

====
